---------------------------- MODULE Spec2Model ----------------------------
(***************************************************************************)
(* A model of the simulation core of gobonsai: the entity/component        *)
(* registry (src/ecs.go), the collision manager (src/collisions.go) and    *)
(* the physics system (src/unnamed/part_000).                              *)
(*                                                                         *)
(* Four specifications share the registry variables:                       *)
(*   Spec      the registry operations called one after another            *)
(*   SpecSave  creation and attachment, with Encode and Decode             *)
(*   SpecPhys  PhysicsSystem.Update with its per-entity goroutines         *)
(*   SpecColl  CollisionManager.Update between changes of the world        *)
(***************************************************************************)
EXTENDS Integers, Sequences, FiniteSets, TLC

VARIABLES
    lastEntityID,    \* ECSManager.lastEntityID (uint32)
    entities,        \* ECSManager.entities: Entity -> bool
    components,      \* ECSManager.components: Entity -> (name -> Component)
    indentToEntity,  \* ECSManager.indentToEntity: ident -> Entity
    ret,             \* what the last call returned
    panicked,        \* a call panicked: the process is gone
    run,             \* history: the ids AddEntity has returned, in call order
    removed,         \* history: the created ids RemoveEntity has been called on
    Gravity,         \* the package variable Gravity
    task,            \* PhysicsSystem.Update: the goroutines of the tick, entity -> locals
    running,         \* PhysicsSystem.Update has started its goroutines and not returned
    tick,            \* history: the PhysicsSystem.Update calls that have returned
    pre,             \* history: the components as they were when the tick began
    handlers,        \* CollisionManager.handlers: groupA -> (groupB -> CollisionHandler)
    previousCollisions,  \* CollisionManager.previousCollisions: the keys stored
    fired,           \* the callbacks the latest CollisionManager.Update called, in order
    updates,         \* history: the CollisionManager.Update calls that have returned
    trail,           \* history: per ordered pair, what the latest Updates saw and fired
    gor,             \* the goroutines calling the registry: goroutine -> the call it is in
    started,         \* history: the calls the goroutines have started
    orphans,         \* the component maps RemoveEntity has deleted, still pointed at
    instants,        \* history: the sets of matching entities during the running query
    sm,              \* the ScenesManager, its wrappers and the pool they come from
    tmm,             \* the TilemapsManager: loaded tilemaps, current tilemap, scale
    anim             \* an Animation, and where a running UpdateAnimation stands

ecsVars == <<lastEntityID, entities, components, indentToEntity>>
histVars == <<run, removed>>
physVars == <<Gravity, task, running, tick, pre>>
collVars == <<handlers, previousCollisions, fired, updates, trail>>
concVars == <<gor, started, orphans, instants>>
engineVars == <<sm, tmm, anim>>
sysVars == <<physVars, collVars, concVars, engineVars>>
vars == <<lastEntityID, entities, components, indentToEntity, ret, panicked,
          run, removed, Gravity, task, running, tick, pre,
          handlers, previousCollisions, fired, updates, trail,
          gor, started, orphans, instants, sm, tmm, anim>>

\* Every id AddEntity has returned.
issued == { run[i] : i \in DOMAIN run }

----------------------------------------------------------------------------
(* Bounds of the model.                                                    *)

\* AddEntity is explored while the counter is below MaxId.
MaxId == 2

\* PhysicsSystem.Update is called MaxTicks times.
MaxTicks == 1

\* CollisionManager.Update is called MaxUpdates times.
MaxUpdates == 4

\* The entity ids the callers pass.  (Entity is a uint32 whose counter wraps at
\* 2^32; the counter stays below MaxId here, so the wrap is out of reach.)
Ids == 1 .. MaxId

\* Stable identifiers the callers use.
Idents == {"a", "b"}

----------------------------------------------------------------------------
(* Component values.  A Component is an interface{}: every value carries   *)
(* its dynamic type, which the type assertions of the code look at.        *)

NilVal == [type |-> "nil"]
BoolVal(b) == [type |-> "bool", v |-> b]
StringVal(s) == [type |-> "string", s |-> s]
FuncVal == [type |-> "func"]

\* The (name, value) pairs the callers of Spec attach.
CompInputs ==
    { <<"persistent", BoolVal(TRUE)>>, <<"persistent", NilVal>>, <<"update", FuncVal>> }

Names == { c[1] : c \in CompInputs }

----------------------------------------------------------------------------
(* sync.Map                                                                *)

EmptyMap == [k \in {} |-> TRUE]

Store(m, k, v) == [x \in (DOMAIN m) \cup {k} |-> IF x = k THEN v ELSE m[x]]

Delete(m, k) == [x \in (DOMAIN m) \ {k} |-> m[x]]

\* Range visits every key once, in no specified order.
RECURSIVE Perms(_)
Perms(S) ==
    IF S = {} THEN { <<>> }
    ELSE UNION { { <<x>> \o p : p \in Perms(S \ {x}) } : x \in S }

Range(m) == Perms(DOMAIN m)

----------------------------------------------------------------------------
(* The registry as one value, so that an operation that calls another      *)
(* (DecodeEntity calls AddEntity and AddComponent) is their composition.   *)

Reg ==
    [lastEntityID |-> lastEntityID, entities |-> entities,
     components |-> components, indentToEntity |-> indentToEntity]

NewECSManager ==
    [lastEntityID |-> 0, entities |-> EmptyMap,
     components |-> EmptyMap, indentToEntity |-> EmptyMap]

\* A variant of AddEntity that computes the id without storing the counter.
AddEntity_NoIncrement(r, ident) ==
    LET id == r.lastEntityID + 1
    IN  [reg |-> [lastEntityID |-> r.lastEntityID,
                  entities |-> Store(r.entities, id, TRUE),
                  components |-> Store(r.components, id, EmptyMap),
                  indentToEntity |-> IF Len(ident) > 0
                                     THEN Store(r.indentToEntity, ident[1], id)
                                     ELSE r.indentToEntity],
         id |-> id]

\* AddEntity(ident ...string): ident is the variadic argument list.
AddEntity(r, ident) ==
    LET id == r.lastEntityID + 1
    IN  [reg |-> [lastEntityID |-> id,
                  entities |-> Store(r.entities, id, TRUE),
                  components |-> Store(r.components, id, EmptyMap),
                  indentToEntity |-> IF Len(ident) > 0
                                     THEN Store(r.indentToEntity, ident[1], id)
                                     ELSE r.indentToEntity],
         id |-> id]

\* The idents Range may find first for e: the callback stops at the first match.
FirstIdentOf(r, e) == { k \in DOMAIN r.indentToEntity : r.indentToEntity[k] = e }

\* A variant of RemoveEntity that leaves the component store behind.
RemoveEntity_KeepsStore(r, e) ==
    LET rest == [r EXCEPT !.entities = Delete(r.entities, e)]
    IN  IF FirstIdentOf(r, e) = {}
        THEN { rest }
        ELSE { [rest EXCEPT !.indentToEntity = Delete(r.indentToEntity, k)] :
                 k \in FirstIdentOf(r, e) }

\* A variant of RemoveEntity that leaves the stable ids alone.
RemoveEntity_KeepsIdent(r, e) ==
    { [r EXCEPT !.entities = Delete(r.entities, e),
                !.components = Delete(r.components, e)] }

\* RemoveEntity: the set of registries it may leave (one per Range order).
RemoveEntity(r, e) ==
    LET rest == [r EXCEPT !.entities = Delete(r.entities, e),
                          !.components = Delete(r.components, e)]
    IN  IF FirstIdentOf(r, e) = {}
        THEN { rest }
        ELSE { [rest EXCEPT !.indentToEntity = Delete(r.indentToEntity, k)] :
                 k \in FirstIdentOf(r, e) }

GetComponent(r, e, name) ==
    IF e \notin DOMAIN r.components THEN NilVal
    ELSE IF name \in DOMAIN r.components[e] THEN r.components[e][name]
    ELSE NilVal

HasComponent(r, e, name) ==
    IF e \notin DOMAIN r.components THEN FALSE
    ELSE name \in DOMAIN r.components[e]

\* A variant of AddComponent that makes the store it does not find.
AddComponent_NoCheck(r, e, name, comp) ==
    [r EXCEPT !.components =
        Store(r.components, e,
              Store(IF e \in DOMAIN r.components THEN r.components[e] ELSE EmptyMap,
                    name, comp))]

AddComponent(r, e, name, comp) ==
    IF e \notin DOMAIN r.entities THEN r
    ELSE [r EXCEPT !.components[e] = Store(r.components[e], name, comp)]

SetComponent(r, e, name, comp) ==
    IF e \notin DOMAIN r.components THEN r
    ELSE [r EXCEPT !.components[e] = Store(r.components[e], name, comp)]

RemoveComponent(r, e, name) ==
    IF e \notin DOMAIN r.components THEN r
    ELSE [r EXCEPT !.components[e] = Delete(r.components[e], name)]

\* RemoveEntities: Range over entities, removing those whose "persistent"
\* component reads nil.  todo is the set of keys Range has not visited yet.
RECURSIVE RemoveEntitiesFrom(_, _)
RemoveEntitiesFrom(r, todo) ==
    IF todo = {} THEN { r }
    ELSE LET k == CHOOSE x \in todo : TRUE
             after == IF GetComponent(r, k, "persistent") = NilVal
                      THEN RemoveEntity(r, k)
                      ELSE { r }
         IN  UNION { RemoveEntitiesFrom(r2, todo \ {k}) : r2 \in after }

RemoveEntities(r) == RemoveEntitiesFrom(r, DOMAIN r.entities)

GetEntityByIdent(r, ident) ==
    IF ident \in DOMAIN r.indentToEntity
    THEN [id |-> r.indentToEntity[ident], ok |-> TRUE]
    ELSE [id |-> 0, ok |-> FALSE]

\* A variant of Matches that is content with one of the names.
Matches_AnyName(r, e, names) ==
    /\ e \in DOMAIN r.components
    /\ \E n \in names : n \in DOMAIN r.components[e]

\* The body of the Range callback of GetEntitiesWithComponents for key e.
Matches(r, e, names) ==
    /\ e \in DOMAIN r.components
    /\ \A n \in names : n \in DOMAIN r.components[e]

RECURSIVE FilterSeq(_, _, _)
FilterSeq(r, order, names) ==
    IF order = <<>> THEN <<>>
    ELSE (IF Matches(r, Head(order), names) THEN <<Head(order)>> ELSE <<>>)
         \o FilterSeq(r, Tail(order), names)

\* GetEntitiesWithComponents: the slices it may return, one per Range order.
GetEntitiesWithComponents(r, names) ==
    { FilterSeq(r, order, names) : order \in Range(r.entities) }

----------------------------------------------------------------------------
(* Serialization: ToSerializable / FromSerializable and encoding/gob.      *)

\* ToSerializable.  The Range over indentToEntity asserts k.(uint32) on keys
\* that AddEntity stored as strings: the assertion panics for the first key.
ToSerializable(r) ==
    IF DOMAIN r.indentToEntity # {}
    THEN [panic |-> TRUE]
    ELSE [panic |-> FALSE,
          LastEntityID |-> r.lastEntityID,
          Entities |-> r.entities,
          Components |-> r.components,
          identMap |-> EmptyMap]

\* gob has no encoding for a func value held in an interface.
GobEncodable(comps) == \A n \in DOMAIN comps : comps[n].type # "func"

\* gob.Encode of a SerializableECSManager: the exported fields travel,
\* the unexported identMap does not.
GobEncodeManager(d) ==
    IF \A e \in DOMAIN d.Components : GobEncodable(d.Components[e])
    THEN [err |-> FALSE,
          bytes |-> [kind |-> "SerializableECSManager",
                     LastEntityID |-> d.LastEntityID,
                     Entities |-> d.Entities,
                     Components |-> d.Components]]
    ELSE [err |-> TRUE]

\* gob.Decode into a fresh SerializableECSManager.
GobDecodeManager(bytes) ==
    IF bytes.kind = "SerializableECSManager"
    THEN [err |-> FALSE,
          data |-> [LastEntityID |-> bytes.LastEntityID,
                    Entities |-> bytes.Entities,
                    Components |-> bytes.Components,
                    identMap |-> EmptyMap]]
    ELSE [err |-> TRUE]

\* FromSerializable: stores over what the registry holds; removes nothing.
FromSerializable(r, data) ==
    [lastEntityID |-> data.LastEntityID,
     entities |-> [e \in (DOMAIN r.entities) \cup (DOMAIN data.Entities) |->
                     IF e \in DOMAIN data.Entities THEN data.Entities[e]
                     ELSE r.entities[e]],
     components |-> [e \in (DOMAIN r.components) \cup (DOMAIN data.Entities) |->
                     IF e \in DOMAIN data.Entities
                     THEN (IF e \in DOMAIN data.Components
                           THEN data.Components[e] ELSE EmptyMap)
                     ELSE r.components[e]],
     indentToEntity |-> [k \in (DOMAIN r.indentToEntity) \cup (DOMAIN data.identMap) |->
                     IF k \in DOMAIN data.identMap THEN data.identMap[k]
                     ELSE r.indentToEntity[k]]]

\* Encode: panic, error or the bytes.
Encode(r) ==
    LET d == ToSerializable(r)
    IN  IF d.panic THEN [panic |-> TRUE]
        ELSE [panic |-> FALSE, out |-> GobEncodeManager(d)]

\* A variant of Decode that applies the data before it looks at the error:
\* after a failed gob.Decode the data is still the zero value.
Decode_ApplyFirst(r, bytes) ==
    LET dec == GobDecodeManager(bytes)
        zero == [LastEntityID |-> 0, Entities |-> EmptyMap,
                 Components |-> EmptyMap, identMap |-> EmptyMap]
    IN  IF dec.err THEN [err |-> TRUE, reg |-> FromSerializable(r, zero)]
        ELSE [err |-> FALSE, reg |-> FromSerializable(r, dec.data)]

\* Decode: the error and the registry afterwards.
Decode(r, bytes) ==
    LET dec == GobDecodeManager(bytes)
    IN  IF dec.err THEN [err |-> TRUE, reg |-> r]
        ELSE [err |-> FALSE, reg |-> FromSerializable(r, dec.data)]

\* EncodeEntity: the outcomes it may have (one per ident Range may find first).
\* components.Load of an absent entity gives nil, and nil.(*sync.Map) panics.
EncodeEntity(r, e) ==
    IF e \notin DOMAIN r.components
    THEN { [panic |-> TRUE] }
    ELSE LET comps == r.components[e]
             idents == IF FirstIdentOf(r, e) = {} THEN {""} ELSE FirstIdentOf(r, e)
         IN  { [panic |-> FALSE,
                out |-> IF GobEncodable(comps)
                        THEN [err |-> FALSE,
                              bytes |-> [kind |-> "SerializableEntity", ID |-> e,
                                         Ident |-> i, Components |-> comps]]
                        ELSE [err |-> TRUE]] : i \in idents }

\* gob.Decode into a fresh SerializableEntity.
GobDecodeEntity(bytes) ==
    IF bytes.kind = "SerializableEntity"
    THEN [err |-> FALSE,
          data |-> [ID |-> bytes.ID, Ident |-> bytes.Ident,
                    Components |-> bytes.Components]]
    ELSE [err |-> TRUE]

\* target.AddComponent for every component of the blob.
RECURSIVE AddComponents(_, _, _, _)
AddComponents(r, e, comps, todo) ==
    IF todo = {} THEN r
    ELSE LET n == CHOOSE x \in todo : TRUE
         IN  AddComponents(AddComponent(r, e, n, comps[n]), e, comps, todo \ {n})

\* DecodeEntity: the error, the entity returned, the ids AddEntity returned
\* on the way, and the registry afterwards.
DecodeEntity(r, bytes) ==
    LET dec == GobDecodeEntity(bytes)
    IN  IF dec.err THEN [err |-> TRUE, id |-> 0, created |-> <<>>, reg |-> r]
        ELSE LET d == dec.data
                 found == GetEntityByIdent(r, d.Ident)
                 reuse == d.Ident # "" /\ found.ok
                 add == AddEntity(r, IF d.Ident # "" THEN <<d.Ident>> ELSE <<>>)
                 target == IF reuse THEN found.id ELSE add.id
                 r1 == IF reuse THEN r ELSE add.reg
             IN  [err |-> FALSE, id |-> target,
                  created |-> IF reuse THEN <<>> ELSE <<add.id>>,
                  reg |-> AddComponents(r1, target, d.Components, DOMAIN d.Components)]

----------------------------------------------------------------------------
(* Spec: the registry's operations, called one after another.              *)

\* Bytes that no gob decoder accepts.
Garbage == [kind |-> "garbage"]

\* What a call returned: its error, and its entity (0 when it returns none).
Return(op, err, id) == [op |-> op, err |-> err, id |-> id]

NoRet == Return("", FALSE, 0)

\* var Gravity float64 = 200
DefaultGravity == 200

\* No PhysicsSystem.Update has been called.
PhysicsIdle ==
    /\ Gravity = DefaultGravity
    /\ task = EmptyMap
    /\ running = FALSE
    /\ tick = 0
    /\ pre = EmptyMap

\* NewCollisionManager: no handler, no stored key; no Update has been called.
CollisionsIdle ==
    /\ handlers = EmptyMap
    /\ previousCollisions = EmptyMap
    /\ fired = <<>>
    /\ updates = 0
    /\ trail = EmptyMap

\* The goroutines that call the registry at the same time.
Goroutines == {"g1", "g2"}

\* Where a goroutine stands in its call, and the locals of the call.
Frame(op, pc, e, name) ==
    [op |-> op, pc |-> pc, e |-> e, name |-> name, seen |-> {}, idx |-> 0, result |-> <<>>]

\* No goroutine is in a call.
NoGoroutines ==
    /\ gor = [g \in Goroutines |-> Frame("", "idle", 0, "")]
    /\ started = 0
    /\ orphans = EmptyMap
    /\ instants = {}

\* NewScenesManager, with no wrapper allocated yet and an empty pool.
NewScenesManager ==
    [scenewrappers |-> EmptyMap, scenelist |-> <<>>, updatelist |-> <<>>,
     drawlist |-> <<>>, poolDirty |-> TRUE,
     wrappers |-> <<>>, pool |-> {}, called |-> <<>>]

\* NewTilemapsManager: no tilemap loaded, none current.
NewTilemapsManager == [tileMaps |-> EmptyMap, currentTileMap |-> "", scale |-> 0]

\* An Animation as NewAnimation and Reset leave it, outside UpdateAnimation.
NewAnimation(frames, frameDuration, loop) ==
    [frames |-> frames, frameDuration |-> frameDuration, currentFrame |-> 0,
     elapsedTime |-> 0, loop |-> loop, completed |-> FALSE, pc |-> "idle"]

\* The scenes, the tilemaps and the animations are not in use.
EngineIdle ==
    /\ sm = NewScenesManager
    /\ tmm = NewTilemapsManager
    /\ anim = NewAnimation(0, 0, FALSE)

SetReg(r) ==
    /\ lastEntityID' = r.lastEntityID
    /\ entities' = r.entities
    /\ components' = r.components
    /\ indentToEntity' = r.indentToEntity

Init ==
    /\ lastEntityID = NewECSManager.lastEntityID
    /\ entities = NewECSManager.entities
    /\ components = NewECSManager.components
    /\ indentToEntity = NewECSManager.indentToEntity
    /\ ret = NoRet
    /\ panicked = FALSE
    /\ run = <<>>
    /\ removed = {}
    /\ PhysicsIdle
    /\ CollisionsIdle
    /\ NoGoroutines
    /\ EngineIdle

\* em.AddEntity() or em.AddEntity(ident)
CallAddEntity(ident) ==
    /\ ~panicked
    /\ UNCHANGED sysVars
    /\ lastEntityID < MaxId
    /\ Len(run) <= MaxId
    /\ LET out == AddEntity(Reg, ident)
       IN  /\ SetReg(out.reg)
           /\ ret' = Return("AddEntity", FALSE, out.id)
           /\ run' = Append(run, out.id)
    /\ UNCHANGED <<panicked, removed>>

CallRemoveEntity(e) ==
    /\ ~panicked
    /\ UNCHANGED sysVars
    /\ \E r2 \in RemoveEntity(Reg, e) : SetReg(r2)
    /\ ret' = NoRet
    /\ removed' = IF e \in issued THEN removed \cup {e} ELSE removed
    /\ UNCHANGED <<panicked, run>>

CallRemoveEntities ==
    /\ ~panicked
    /\ UNCHANGED sysVars
    /\ \E r2 \in RemoveEntities(Reg) :
          /\ SetReg(r2)
          /\ removed' = removed \cup (((DOMAIN entities) \ (DOMAIN r2.entities)) \cap issued)
    /\ ret' = NoRet
    /\ UNCHANGED <<panicked, run>>

CallAddComponent(e, c) ==
    /\ ~panicked
    /\ UNCHANGED sysVars
    /\ SetReg(AddComponent(Reg, e, c[1], c[2]))
    /\ ret' = NoRet
    /\ UNCHANGED <<panicked, run, removed>>

CallSetComponent(e, c) ==
    /\ ~panicked
    /\ UNCHANGED sysVars
    /\ SetReg(SetComponent(Reg, e, c[1], c[2]))
    /\ ret' = NoRet
    /\ UNCHANGED <<panicked, run, removed>>

CallRemoveComponent(e, name) ==
    /\ ~panicked
    /\ UNCHANGED sysVars
    /\ SetReg(RemoveComponent(Reg, e, name))
    /\ ret' = NoRet
    /\ UNCHANGED <<panicked, run, removed>>

\* data, err := em.Encode()
CallEncode ==
    /\ ~panicked
    /\ UNCHANGED sysVars
    /\ LET res == Encode(Reg)
       IN  IF res.panic
           THEN panicked' = TRUE /\ UNCHANGED ret
           ELSE panicked' = FALSE /\ ret' = Return("Encode", res.out.err, 0)
    /\ UNCHANGED <<ecsVars, run, removed>>

\* Registries whose encodings the callers hold (saved games, network
\* messages): each is built with the registry's own operations.
SavedEmpty == NewECSManager

SavedOne ==
    AddComponent(AddEntity(NewECSManager, <<>>).reg, 1, "persistent", BoolVal(TRUE))

SavedNamed ==
    AddComponent(AddEntity(NewECSManager, <<"a">>).reg, 1, "persistent", BoolVal(TRUE))

SavedPlain ==
    AddComponent(AddEntity(NewECSManager, <<>>).reg, 1, "persistent", NilVal)

RegistryBlobs == { Encode(r).out.bytes : r \in {SavedEmpty, SavedOne} }

EntityBlobs ==
    { res.out.bytes : res \in EncodeEntity(SavedNamed, 1) \cup EncodeEntity(SavedPlain, 1) }

\* The byte slices a caller passes to Decode and DecodeEntity.
DecodeInputs == {Garbage} \cup RegistryBlobs \cup EntityBlobs

CallDecode(bytes) ==
    /\ ~panicked
    /\ UNCHANGED sysVars
    /\ LET res == Decode(Reg, bytes)
       IN  /\ SetReg(res.reg)
           /\ ret' = Return("Decode", res.err, 0)
    /\ UNCHANGED <<panicked, run, removed>>

CallEncodeEntity(e) ==
    /\ ~panicked
    /\ UNCHANGED sysVars
    /\ \E res \in EncodeEntity(Reg, e) :
          IF res.panic
          THEN panicked' = TRUE /\ UNCHANGED ret
          ELSE panicked' = FALSE /\ ret' = Return("EncodeEntity", res.out.err, 0)
    /\ UNCHANGED <<ecsVars, run, removed>>

CallDecodeEntity(bytes) ==
    /\ ~panicked
    /\ UNCHANGED sysVars
    /\ LET res == DecodeEntity(Reg, bytes)
       IN  /\ res.reg.lastEntityID <= MaxId
           /\ Len(run \o res.created) <= MaxId + 1
           /\ SetReg(res.reg)
           /\ ret' = Return("DecodeEntity", res.err, res.id)
           /\ run' = run \o res.created
    /\ UNCHANGED <<panicked, removed>>

Next ==
    \/ \E ident \in {<<>>} \cup { <<i>> : i \in Idents } : CallAddEntity(ident)
    \/ \E e \in Ids : CallRemoveEntity(e)
    \/ CallRemoveEntities
    \/ \E e \in Ids, c \in CompInputs : CallAddComponent(e, c)
    \/ \E e \in Ids, c \in CompInputs : CallSetComponent(e, c)
    \/ \E e \in Ids, n \in Names : CallRemoveComponent(e, n)
    \/ \E e \in Ids : CallEncodeEntity(e)
    \/ \E bytes \in DecodeInputs : CallDecodeEntity(bytes)

Spec == Init /\ [][Next]_vars

\* The components attached in SpecSave: one gob can encode, one it cannot.
SaveCompInputs == { <<"persistent", BoolVal(TRUE)>>, <<"update", FuncVal>> }

NextSave ==
    \/ \E ident \in {<<>>, <<"a">>} : CallAddEntity(ident)
    \/ \E e \in Ids, c \in SaveCompInputs : CallAddComponent(e, c)
    \/ CallEncode
    \/ \E bytes \in DecodeInputs : CallDecode(bytes)
    \/ \E bytes \in DecodeInputs : CallDecodeEntity(bytes)

SpecSave == Init /\ [][NextSave]_vars

----------------------------------------------------------------------------
(* Properties of the registry.                                             *)

\* The entities a returned slice holds.
Elems(seq) == { seq[i] : i \in DOMAIN seq }

Live == DOMAIN entities

\* C2: whatever operations came before, GetEntitiesWithComponents(S) returns
\* an entity iff it is live and holds every name of S, and returns none twice.
C2_QueryCorrect ==
    \A S \in SUBSET Names : \A res \in GetEntitiesWithComponents(Reg, S) :
        /\ \A e \in Ids \cup Live :
              (e \in Elems(res)) <=> (e \in Live /\ \A n \in S : HasComponent(Reg, e, n))
        /\ \A i, j \in DOMAIN res : i # j => res[i] # res[j]

\* A query of a name that one live entity holds and another does not.
C2_Witness ==
    \E S \in SUBSET Names : \E res \in GetEntitiesWithComponents(Reg, S) :
        /\ S # {}
        /\ res # <<>>
        /\ Live \ Elems(res) # {}

\* C3: the ids that consecutive AddEntity calls return are strictly
\* increasing, hence pairwise distinct (in Spec nothing overwrites the counter).
C3_StrictlyIncreasing ==
    \A i, j \in DOMAIN run : i < j => run[i] < run[j]

\* As many creations as the bound allows, one of them with a stable id.
C3_Witness == Len(run) >= MaxId /\ DOMAIN indentToEntity # {}

\* C4: AddEntity never returns an id that an earlier call returned, also
\* after removals and after a registry blob was decoded.
C4_NeverReused ==
    \A i, j \in DOMAIN run : i # j => run[i] # run[j]

\* C5: once RemoveEntity(e) has returned, no query returns e, GetComponent
\* reads nil and HasComponent is false for e, whatever is called afterwards
\* (Spec decodes no registry blob).
C5_RemovalFinal ==
    \A e \in removed :
        /\ \A S \in SUBSET Names : \A res \in GetEntitiesWithComponents(Reg, S) :
              e \notin Elems(res)
        /\ \A n \in Names : GetComponent(Reg, e, n) = NilVal /\ ~HasComponent(Reg, e, n)

\* An entity was removed, a later one was created and carries a component.
C5_Witness ==
    \E e \in removed : \E f \in Live :
        f > e /\ DOMAIN components[f] # {}

\* C9: Encode followed by Decode into an empty registry gives back the
\* registry: counter, entities, component maps and the stable-id mapping.
C9_RoundTrip ==
    LET res == Encode(Reg)
    IN  /\ ~res.panic
        /\ ~res.out.err
        /\ Decode(NewECSManager, res.out.bytes) = [err |-> FALSE, reg |-> Reg]

\* Bytes that are not the gob stream of a SerializableECSManager.
MalformedRegistryBlob(bytes) == bytes.kind # "SerializableECSManager"

\* Bytes that are not the gob stream of a SerializableEntity.
MalformedEntityBlob(bytes) == bytes.kind # "SerializableEntity"

\* C10: Decode and DecodeEntity of a malformed blob return an error and
\* leave the counter, the entities, the stores and the stable ids as they were.
C10_MalformedUnchanged ==
    [][ /\ ret'.op = "Decode" =>
              \A bytes \in DecodeInputs :
                  (MalformedRegistryBlob(bytes) /\ CallDecode(bytes))
                      => (ret'.err /\ UNCHANGED ecsVars)
        /\ ret'.op = "DecodeEntity" =>
              \A bytes \in DecodeInputs :
                  (MalformedEntityBlob(bytes) /\ CallDecodeEntity(bytes))
                      => (ret'.err /\ UNCHANGED ecsVars) ]_vars

\* A failed Decode or DecodeEntity on a registry that holds an entity with a
\* component and a stable id.
C10_Witness ==
    /\ ret.op \in {"Decode", "DecodeEntity"}
    /\ ret.err
    /\ \E e \in Live : DOMAIN components[e] # {}
    /\ DOMAIN indentToEntity # {}

----------------------------------------------------------------------------
(* The physics system.  Coordinates and velocities are float64 in the      *)
(* code; here they are integers, and every velocity is a multiple of       *)
(* DeltaTime.den, so that velocity * deltaTime is exact.                   *)

PositionComponent(x, y) == [type |-> "*PositionComponent", X |-> x, Y |-> y]

VelocityComponent(x, y) == [type |-> "*VelocityComponent", X |-> x, Y |-> y]

SizeComponent(w, h, top, bottom, left, right) ==
    [type |-> "*SizeComponent", Width |-> w, Height |-> h, TopOffset |-> top,
     BottomOffset |-> bottom, LeftOffset |-> left, RightOffset |-> right]

\* The deltaTime passed to Update: the tenth of a second of the spec's scenario.
DeltaTime == [num |-> 1, den |-> 10]

\* v * deltaTime
TimesDt(v) == (v * DeltaTime.num) \div DeltaTime.den

\* A variant of isColliding that counts touching edges as a collision.
isColliding_Touching(x1, y1, size1, pos2, size2) ==
    LET x1Min == x1 - size1.LeftOffset
        x1Max == x1 + size1.Width + size1.RightOffset
        y1Min == y1 - size1.TopOffset
        y1Max == y1 + size1.Height + size1.BottomOffset
        x2Min == pos2.X - size2.LeftOffset
        x2Max == pos2.X + size2.Width + size2.RightOffset
        y2Min == pos2.Y - size2.TopOffset
        y2Max == pos2.Y + size2.Height + size2.BottomOffset
    IN  x1Min <= x2Max /\ x1Max >= x2Min /\ y1Min <= y2Max /\ y1Max >= y2Min

isColliding(x1, y1, size1, pos2, size2) ==
    LET x1Min == x1 - size1.LeftOffset
        x1Max == x1 + size1.Width + size1.RightOffset
        y1Min == y1 - size1.TopOffset
        y1Max == y1 + size1.Height + size1.BottomOffset
        x2Min == pos2.X - size2.LeftOffset
        x2Max == pos2.X + size2.Width + size2.RightOffset
        y2Min == pos2.Y - size2.TopOffset
        y2Max == pos2.Y + size2.Height + size2.BottomOffset
    IN  x1Min < x2Max /\ x1Max > x2Min /\ y1Min < y2Max /\ y1Max > y2Min

containsEntity(list, entity) == \E i \in DOMAIN list : list[i] = entity

\* A variant of SkipsSolid that never excludes a solid.
SkipsSolid_NoExclusion(e, other, hasExclude, excludeEntities) ==
    other = e

\* The continue at the head of processEntity's loop over the solid entities.
SkipsSolid(e, other, hasExclude, excludeEntities) ==
    other = e \/ (hasExclude /\ containsEntity(excludeEntities, other))

\* A variant of Resolve in which a blocked axis blocks the other one too.
Resolve_BothAxes(l, pos, wouldCollideX, wouldCollideY) ==
    IF wouldCollideX \/ wouldCollideY
    THEN [l EXCEPT !.newX = pos.X, !.newY = pos.Y, !.velX = 0, !.velY = 0]
    ELSE l

\* A variant of Resolve that stops at the first solid that blocks: once an
\* axis is rejected, later solids reject nothing.
Resolve_FirstHitOnly(l, pos, wouldCollideX, wouldCollideY) ==
    IF l.velX = 0 \/ l.velY = 0 THEN l
    ELSE LET l1 == IF wouldCollideX THEN [l EXCEPT !.newX = pos.X, !.velX = 0] ELSE l
         IN  IF wouldCollideY THEN [l1 EXCEPT !.newY = pos.Y, !.velY = 0] ELSE l1

\* The two ifs that end the loop body, on l = [newX, newY, velX, velY].
Resolve(l, pos, wouldCollideX, wouldCollideY) ==
    LET l1 == IF wouldCollideX THEN [l EXCEPT !.newX = pos.X, !.velX = 0] ELSE l
    IN  IF wouldCollideY THEN [l1 EXCEPT !.newY = pos.Y, !.velY = 0] ELSE l1

\* PhysicsSystem.AddCollider
AddCollider(r, x, y, width, height) ==
    LET a == AddEntity(r, <<>>)
        r1 == AddComponent(a.reg, a.id, "position", PositionComponent(x, y))
        r2 == AddComponent(r1, a.id, "size", SizeComponent(width, height, 0, 0, 0, 0))
    IN  AddComponent(r2, a.id, "solid", BoolVal(TRUE))

----------------------------------------------------------------------------
(* The worlds SpecPhys starts from: a moving entity at the origin and two  *)
(* solids, each built with AddEntity, AddComponent and AddCollider.        *)

\* Attach c = <<name, value>>, or nothing when c = <<>>.
With(r, e, c) == IF c = <<>> THEN r ELSE AddComponent(r, e, c[1], c[2])

MoverVelocities == { VelocityComponent(vx, vy) : vx \in {50, 200}, vy \in {0, 50} }

MoverSizes == { SizeComponent(10, 10, 0, 0, 0, right) : right \in {0, 10} }

MoverExcludes ==
    { <<>>, <<"solidexclude", StringVal("")>>, <<"solidexclude", StringVal("ghost")>> }

AddMover(r, vel, size, exclude) ==
    LET a == AddEntity(r, <<>>)
        r1 == AddComponent(a.reg, a.id, "position", PositionComponent(0, 0))
        r2 == AddComponent(r1, a.id, "velocity", vel)
        r3 == AddComponent(r2, a.id, "size", size)
    IN  With(r3, a.id, exclude)

SolidPlaces == { <<10, 0>>, <<20, 0>>, <<0, 10>>, <<10, 10>> }

GhostTags == { <<>>, <<"ghost", BoolVal(TRUE)>> }

\* A solid may itself carry a velocity: the physics then moves it too.
SolidVelocities == { <<>>, <<"velocity", VelocityComponent(-100, 0)>> }

AddSolid(r, place, ghost, vel) ==
    LET r1 == AddCollider(r, place[1], place[2], 10, 10)
    IN  With(With(r1, r1.lastEntityID, ghost), r1.lastEntityID, vel)

PhysWorlds ==
    LET one == { AddMover(NewECSManager, v, s, x) :
                   v \in MoverVelocities, s \in MoverSizes, x \in MoverExcludes }
        two == { AddSolid(r, p, g, v) :
                   r \in one, p \in SolidPlaces, g \in GhostTags, v \in SolidVelocities }
    IN  two \cup { AddSolid(r, p, <<>>, <<>>) : r \in two, p \in SolidPlaces }

----------------------------------------------------------------------------
(* SpecPhys: PhysicsSystem.Update.  Every goroutine runs processEntity in  *)
(* steps that interleave with the steps of the others: its start up to the *)
(* two queries, each isColliding call on a solid, and the two assignments  *)
(* that commit the position.                                               *)

Locals(pc) ==
    [pc |-> pc, newX |-> 0, newY |-> 0, solidEntities |-> <<>>,
     excludeEntities |-> <<>>, hasExclude |-> FALSE, i |-> 0, wouldCollideX |-> FALSE]

InitPhys ==
    /\ \E w \in PhysWorlds :
          /\ lastEntityID = w.lastEntityID
          /\ entities = w.entities
          /\ components = w.components
          /\ indentToEntity = w.indentToEntity
          /\ run = [i \in 1 .. w.lastEntityID |-> i]
    /\ ret = NoRet
    /\ panicked = FALSE
    /\ removed = {}
    /\ Gravity \in {0, DefaultGravity}
    /\ task = EmptyMap
    /\ running = FALSE
    /\ tick = 0
    /\ pre = EmptyMap
    /\ CollisionsIdle
    /\ NoGoroutines
    /\ EngineIdle

\* Update, up to wg.Wait(): one goroutine per entity of the query.
UpdateBegin ==
    /\ ~running
    /\ tick < MaxTicks
    /\ \E ents \in GetEntitiesWithComponents(Reg, {"position", "velocity", "size"}) :
          task' = [e \in Elems(ents) |-> Locals("start")]
    /\ running' = TRUE
    /\ pre' = components
    /\ UNCHANGED <<engineVars, concVars, collVars, ecsVars, ret, panicked, run, removed, Gravity, tick>>

\* A variant of ProcessStart in which the candidate y is computed from the
\* velocity before the gravity step.
ProcessStart_StaleVelocity(e) ==
    /\ running
    /\ e \in DOMAIN task
    /\ task[e].pc = "start"
    /\ LET pos == GetComponent(Reg, e, "position")
           vel == GetComponent(Reg, e, "velocity")
           size == GetComponent(Reg, e, "size")
           exc == GetComponent(Reg, e, "solidexclude")
           hasExclude == exc.type = "string"
       IN  IF pos.type # "*PositionComponent" \/ vel.type # "*VelocityComponent"
              \/ size.type # "*SizeComponent"
           THEN /\ task' = [task EXCEPT ![e] = Locals("done")]
                /\ UNCHANGED components
           ELSE LET excludeSets ==
                        IF hasExclude /\ exc.s # ""
                        THEN GetEntitiesWithComponents(Reg, {exc.s})
                        ELSE { <<>> }
                IN  /\ components' = [components EXCEPT
                                         ![e]["velocity"].Y = vel.Y + TimesDt(Gravity)]
                    /\ \E solids \in GetEntitiesWithComponents(Reg, {"position", "size", "solid"}) :
                          task' = [task EXCEPT ![e] =
                                     [pc |-> "loop",
                                      newX |-> pos.X + TimesDt(vel.X),
                                      newY |-> pos.Y + TimesDt(vel.Y),
                                      solidEntities |-> solids,
                                      excludeEntities |-> CHOOSE x \in excludeSets : TRUE,
                                      hasExclude |-> hasExclude,
                                      i |-> 1,
                                      wouldCollideX |-> FALSE]]
    /\ UNCHANGED <<engineVars, concVars, collVars, lastEntityID, entities, indentToEntity, ret, panicked, run, removed,
                   Gravity, running, tick, pre>>

\* processEntity, from its first line to the loop: the type assertions,
\* the gravity step, the candidate position and the two queries.
ProcessStart(e) ==
    /\ running
    /\ e \in DOMAIN task
    /\ task[e].pc = "start"
    /\ LET pos == GetComponent(Reg, e, "position")
           vel == GetComponent(Reg, e, "velocity")
           size == GetComponent(Reg, e, "size")
           exc == GetComponent(Reg, e, "solidexclude")
           ok1 == pos.type = "*PositionComponent"
           ok2 == vel.type = "*VelocityComponent"
           ok3 == size.type = "*SizeComponent"
           hasExclude == exc.type = "string"
       IN  IF ~ok1 \/ ~ok2 \/ ~ok3
           THEN /\ task' = [task EXCEPT ![e] = Locals("done")]
                /\ UNCHANGED components
           ELSE LET velY == vel.Y + TimesDt(Gravity)
                    excludeSets ==
                        IF hasExclude /\ exc.s # ""
                        THEN GetEntitiesWithComponents(Reg, {exc.s})
                        ELSE { <<>> }
                IN  /\ components' = [components EXCEPT ![e]["velocity"].Y = velY]
                    /\ \E solids \in GetEntitiesWithComponents(Reg, {"position", "size", "solid"}) :
                          task' = [task EXCEPT ![e] =
                                     [pc |-> "loop",
                                      newX |-> pos.X + TimesDt(vel.X),
                                      newY |-> pos.Y + TimesDt(velY),
                                      solidEntities |-> solids,
                                      excludeEntities |-> CHOOSE x \in excludeSets : TRUE,
                                      hasExclude |-> hasExclude,
                                      i |-> 1,
                                      wouldCollideX |-> FALSE]]
    /\ UNCHANGED <<engineVars, concVars, collVars, lastEntityID, entities, indentToEntity, ret, panicked, run, removed,
                   Gravity, running, tick, pre>>

\* The head of the loop body for the next solid, up to the first
\* isColliding call; after the last solid, the loop ends.
ProcessTestX(e) ==
    /\ running
    /\ e \in DOMAIN task
    /\ task[e].pc = "loop"
    /\ LET t == task[e]
           pos == components[e]["position"]
           size == components[e]["size"]
       IN  IF t.i > Len(t.solidEntities)
           THEN task' = [task EXCEPT ![e].pc = "commitX"]
           ELSE LET other == t.solidEntities[t.i]
                    otherPos == GetComponent(Reg, other, "position")
                    otherSize == GetComponent(Reg, other, "size")
                IN  IF SkipsSolid(e, other, t.hasExclude, t.excludeEntities)
                       \/ otherPos.type # "*PositionComponent"
                       \/ otherSize.type # "*SizeComponent"
                    THEN task' = [task EXCEPT ![e].i = t.i + 1]
                    ELSE task' = [task EXCEPT
                                    ![e].pc = "testY",
                                    ![e].wouldCollideX =
                                        isColliding(t.newX, pos.Y, size, otherPos, otherSize)]
    /\ UNCHANGED <<engineVars, concVars, collVars, ecsVars, ret, panicked, run, removed, Gravity, running, tick, pre>>

\* The second isColliding call on the same solid and the two ifs.
ProcessTestY(e) ==
    /\ running
    /\ e \in DOMAIN task
    /\ task[e].pc = "testY"
    /\ LET t == task[e]
           pos == components[e]["position"]
           vel == components[e]["velocity"]
           size == components[e]["size"]
           other == t.solidEntities[t.i]
           otherPos == components[other]["position"]
           otherSize == components[other]["size"]
           wouldCollideY == isColliding(pos.X, t.newY, size, otherPos, otherSize)
           l == Resolve([newX |-> t.newX, newY |-> t.newY, velX |-> vel.X, velY |-> vel.Y],
                        pos, t.wouldCollideX, wouldCollideY)
       IN  /\ task' = [task EXCEPT ![e].pc = "loop", ![e].i = t.i + 1,
                                   ![e].wouldCollideX = FALSE,
                                   ![e].newX = l.newX, ![e].newY = l.newY]
           /\ components' = [components EXCEPT ![e]["velocity"].X = l.velX,
                                               ![e]["velocity"].Y = l.velY]
    /\ UNCHANGED <<engineVars, concVars, collVars, lastEntityID, entities, indentToEntity, ret, panicked, run, removed,
                   Gravity, running, tick, pre>>

\* pos.X = newX
ProcessCommitX(e) ==
    /\ running
    /\ e \in DOMAIN task
    /\ task[e].pc = "commitX"
    /\ components' = [components EXCEPT ![e]["position"].X = task[e].newX]
    /\ task' = [task EXCEPT ![e].pc = "commitY"]
    /\ UNCHANGED <<engineVars, concVars, collVars, lastEntityID, entities, indentToEntity, ret, panicked, run, removed,
                   Gravity, running, tick, pre>>

\* A variant of ProcessCommitY that takes the velocity component away from
\* an entity that has come to rest on the x axis.
ProcessCommitY_DropsVelocity(e) ==
    /\ running
    /\ e \in DOMAIN task
    /\ task[e].pc = "commitY"
    /\ LET r == SetComponent(Reg, e, "position",
                             [components[e]["position"] EXCEPT !.Y = task[e].newY])
       IN  components' = IF components[e]["velocity"].X = 0
                         THEN RemoveComponent(r, e, "velocity").components
                         ELSE r.components
    /\ task' = [task EXCEPT ![e] = Locals("done")]
    /\ UNCHANGED <<engineVars, concVars, collVars, lastEntityID, entities, indentToEntity, ret, panicked, run, removed,
                   Gravity, running, tick, pre>>

\* pos.Y = newY, and the goroutine is done
ProcessCommitY(e) ==
    /\ running
    /\ e \in DOMAIN task
    /\ task[e].pc = "commitY"
    /\ components' = [components EXCEPT ![e]["position"].Y = task[e].newY]
    /\ task' = [task EXCEPT ![e] = Locals("done")]
    /\ UNCHANGED <<engineVars, concVars, collVars, lastEntityID, entities, indentToEntity, ret, panicked, run, removed,
                   Gravity, running, tick, pre>>

\* A variant of UpdateEnd without the wait: Update returns while goroutines
\* may still be running.
UpdateEnd_NoWait ==
    /\ running
    /\ running' = FALSE
    /\ tick' = tick + 1
    /\ UNCHANGED <<engineVars, concVars, collVars, ecsVars, ret, panicked, run, removed, Gravity, task, pre>>

\* wg.Wait() returns when every goroutine is done, and Update returns.
UpdateEnd ==
    /\ running
    /\ \A e \in DOMAIN task : task[e].pc = "done"
    /\ running' = FALSE
    /\ tick' = tick + 1
    /\ UNCHANGED <<engineVars, concVars, collVars, ecsVars, ret, panicked, run, removed, Gravity, task, pre>>

NextPhys ==
    \/ UpdateBegin
    \/ \E e \in DOMAIN task : ProcessStart(e)
    \/ \E e \in DOMAIN task : ProcessTestX(e)
    \/ \E e \in DOMAIN task : ProcessTestY(e)
    \/ \E e \in DOMAIN task : ProcessCommitX(e)
    \/ \E e \in DOMAIN task : ProcessCommitY(e)
    \/ UpdateEnd

SpecPhys == InitPhys /\ [][NextPhys]_vars

\* One goroutine of the tick, at whichever line it stands.
processEntity(e) ==
    \/ ProcessStart(e)
    \/ ProcessTestX(e)
    \/ ProcessTestY(e)
    \/ ProcessCommitX(e)
    \/ ProcessCommitY(e)

\* The Go scheduler runs every runnable goroutine eventually: each
\* processEntity goroutine, and the one blocked in wg.Wait() once the
\* counter is zero.
\* The worlds of one mover and one solid, which may itself be moving.
InitBarrier == InitPhys /\ lastEntityID = 2

SpecPhysFair ==
    /\ InitBarrier
    /\ [][NextPhys]_vars
    /\ \A e \in Ids : WF_vars(processEntity(e))
    /\ WF_vars(UpdateEnd)

----------------------------------------------------------------------------
(* Properties of one physics tick.  They compare what processEntity left   *)
(* in the registry with the components as they were when Update began.     *)

PreReg == [Reg EXCEPT !.components = pre]

Processed(e) == e \in DOMAIN task /\ task[e].pc = "done"

\* No goroutine of this tick moves o.
Static(o) == o \notin DOMAIN task

Excluded(e, o) ==
    LET g == GetComponent(PreReg, e, "solidexclude")
    IN  g.type = "string" /\ g.s # "" /\ HasComponent(PreReg, o, g.s)

SolidsOf(e) ==
    { o \in DOMAIN pre \ {e} : \A n \in {"position", "size", "solid"} : HasComponent(PreReg, o, n) }

Obstacles(e) == { o \in SolidsOf(e) : ~Excluded(e, o) }

CandidateVelY(e) == pre[e]["velocity"].Y + TimesDt(Gravity)

CandidateX(e) == pre[e]["position"].X + TimesDt(pre[e]["velocity"].X)

CandidateY(e) == pre[e]["position"].Y + TimesDt(CandidateVelY(e))

HitsX(e, o) ==
    isColliding(CandidateX(e), pre[e]["position"].Y, pre[e]["size"],
                pre[o]["position"], pre[o]["size"])

HitsY(e, o) ==
    isColliding(pre[e]["position"].X, CandidateY(e), pre[e]["size"],
                pre[o]["position"], pre[o]["size"])

XOnlyBlocked(e) ==
    /\ \A o \in Obstacles(e) : Static(o)
    /\ \E o \in Obstacles(e) : HitsX(e, o)
    /\ \A o \in Obstacles(e) : ~HitsY(e, o)

\* C6: when the padded rectangle of an entity at (newX, currentY) overlaps a
\* non-excluded solid and at (currentX, newY) overlaps none, the solids it
\* is tested against standing still during the tick, then after the tick
\* its x is unchanged, its velocity.x is 0 and its y has advanced by
\* velocity.y*dt, velocity.y taken after the gravity step.
C6_AxisSeparated ==
    \A e \in DOMAIN task :
        (Processed(e) /\ XOnlyBlocked(e)) =>
            /\ components[e]["position"].X = pre[e]["position"].X
            /\ components[e]["velocity"].X = 0
            /\ components[e]["velocity"].Y = CandidateVelY(e)
            /\ components[e]["position"].Y = CandidateY(e)

C6_Witness ==
    \E e \in DOMAIN task :
        /\ Processed(e)
        /\ XOnlyBlocked(e)
        /\ pre[e]["velocity"].X # 0
        /\ Gravity # 0
        /\ components[e]["position"].Y # pre[e]["position"].Y
        /\ Cardinality(Obstacles(e)) > 1

\* The scenario of C7 as Update found it: A is entity 1 at (0,0), 10x10
\* without offsets, velocity (200,50); B is entity 2, solid, at (10,0),
\* 10x10; there is no other entity and Gravity is 0.
ScenarioAB ==
    /\ DOMAIN pre = {1, 2}
    /\ Gravity = 0
    /\ pre[1]["position"] = PositionComponent(0, 0)
    /\ pre[1]["velocity"] = VelocityComponent(200, 50)
    /\ pre[1]["size"] = SizeComponent(10, 10, 0, 0, 0, 0)
    /\ DOMAIN pre[2] = {"position", "size", "solid"}
    /\ pre[2]["position"] = PositionComponent(10, 0)
    /\ pre[2]["size"] = SizeComponent(10, 10, 0, 0, 0, 0)

\* C7 as stated: after the tick A's x is still 0, its velocity.x is 0 and
\* its y is 5.
C7_ScenarioAsStated ==
    (ScenarioAB /\ Processed(1)) =>
        /\ components[1]["position"].X = 0
        /\ components[1]["velocity"].X = 0
        /\ components[1]["position"].Y = 5

\* C7: in the scenario the candidate newX = 20 puts A's rectangle [20,30]
\* edge to edge with B's [10,20], which isColliding does not count as an
\* overlap: after the tick A is at (20,5) and its velocity is still (200,50).
C7_ScenarioEdgeToEdge ==
    (ScenarioAB /\ Processed(1)) =>
        /\ components[1]["position"] = PositionComponent(20, 5)
        /\ components[1]["velocity"] = VelocityComponent(200, 50)

C7_Witness == ScenarioAB /\ Processed(1) /\ ~running

\* What processEntity leaves of an entity that is tested against the
\* solids of the set S only, none of them moving.
Blocked(e, S) ==
    LET hitX == \E o \in S : HitsX(e, o)
        hitY == \E o \in S : HitsY(e, o)
    IN  [position |->
             PositionComponent(IF hitX THEN pre[e]["position"].X ELSE CandidateX(e),
                               IF hitY THEN pre[e]["position"].Y ELSE CandidateY(e)),
         velocity |->
             VelocityComponent(IF hitX THEN 0 ELSE pre[e]["velocity"].X,
                               IF hitY THEN 0 ELSE CandidateVelY(e))]

HasExclusion(e) ==
    LET g == GetComponent(PreReg, e, "solidexclude")
    IN  g.type = "string" /\ g.s # ""

\* C8: an entity whose solidexclude is a non-empty G ends the tick where an
\* entity without solidexclude would that met only the solids lacking a
\* component named G (these standing still during the tick): no solid
\* carrying G blocks it on either axis, every other solid blocks it as usual.
C8_SolidExclude ==
    \A e \in DOMAIN task :
        (Processed(e) /\ HasExclusion(e) /\ \A o \in Obstacles(e) : Static(o)) =>
            /\ components[e]["position"] = Blocked(e, Obstacles(e)).position
            /\ components[e]["velocity"] = Blocked(e, Obstacles(e)).velocity

C8_Witness ==
    \E e \in DOMAIN task :
        /\ Processed(e)
        /\ HasExclusion(e)
        /\ \A o \in Obstacles(e) : Static(o)
        /\ \E o \in SolidsOf(e) \ Obstacles(e) : HitsX(e, o)
        /\ \E o \in Obstacles(e) : HitsY(e, o)
        /\ components[e]["position"].X = CandidateX(e)
        /\ components[e]["position"].Y = pre[e]["position"].Y

----------------------------------------------------------------------------
(* The collision manager (src/collisions.go).                              *)

ColliderComponent(group, cross, offsetX, offsetY, width, height, hw, hh, vw, vh) ==
    [type |-> "*ColliderComponent", Group |-> group, CrossShape |-> cross,
     OffsetX |-> offsetX, OffsetY |-> offsetY, Width |-> width, Height |-> height,
     HorizWidth |-> hw, HorizHeight |-> hh, VertWidth |-> vw, VertHeight |-> vh]

\* A CollisionHandler: which of its three callbacks are not nil.
CollisionHandler(enter, stay, leave) == [Enter |-> enter, Stay |-> stay, Leave |-> leave]

\* A call of a callback, as the game sees it.
Fired(kind, e1, e2) == [kind |-> kind, a |-> e1, b |-> e2]

AddResolve(h, groupA, groupB, handler) ==
    LET inner == IF groupA \in DOMAIN h THEN h[groupA] ELSE EmptyMap
    IN  Store(h, groupA, Store(inner, groupB, handler))

\* A variant of getHandler that looks the groups up the other way round.
getHandler_Reversed(h, groupA, groupB) ==
    IF groupB \in DOMAIN h /\ groupA \in DOMAIN h[groupB]
    THEN [handler |-> h[groupB][groupA], ok |-> TRUE]
    ELSE [handler |-> CollisionHandler(FALSE, FALSE, FALSE), ok |-> FALSE]

getHandler(h, groupA, groupB) ==
    IF groupA \in DOMAIN h /\ groupB \in DOMAIN h[groupA]
    THEN [handler |-> h[groupA][groupB], ok |-> TRUE]
    ELSE [handler |-> CollisionHandler(FALSE, FALSE, FALSE), ok |-> FALSE]

getComponents(r, e) ==
    LET cRaw == GetComponent(r, e, "collider")
        p == GetComponent(r, e, "position")
        s == GetComponent(r, e, "size")
        none == [c |-> NilVal, p |-> NilVal, s |-> NilVal]
    IN  IF cRaw.type # "*ColliderComponent" THEN none
        ELSE IF p.type # "*PositionComponent" \/ s.type # "*SizeComponent" THEN none
        ELSE [c |-> cRaw, p |-> p, s |-> s]

\* A variant of rectOverlap that counts a shared edge or corner.
rectOverlap_Touching(x1, y1, w1, h1, x2, y2, w2, h2) ==
    x1 <= x2 + w2 /\ x1 + w1 >= x2 /\ y1 <= y2 + h2 /\ y1 + h1 >= y2

rectOverlap(x1, y1, w1, h1, x2, y2, w2, h2) ==
    x1 < x2 + w2 /\ x1 + w1 > x2 /\ y1 < y2 + h2 /\ y1 + h1 > y2

\* The halves are exact: the bars of the colliders used have even sides.
Half(v) == v \div 2

\* A variant of checkCollision that, for two crosses, also tests the bars of
\* the second against the rectangle of the first.
checkCollision_BothCrosses(p1, c1, p2, c2) ==
    LET barsOfFirst ==
            \/ rectOverlap(p1.X + c1.OffsetX - Half(c1.HorizWidth),
                           p1.Y + c1.OffsetY - Half(c1.HorizHeight),
                           c1.HorizWidth, c1.HorizHeight,
                           p2.X + c2.OffsetX, p2.Y + c2.OffsetY, c2.Width, c2.Height)
            \/ rectOverlap(p1.X + c1.OffsetX - Half(c1.VertWidth),
                           p1.Y + c1.OffsetY - Half(c1.VertHeight),
                           c1.VertWidth, c1.VertHeight,
                           p2.X + c2.OffsetX, p2.Y + c2.OffsetY, c2.Width, c2.Height)
        barsOfSecond ==
            \/ rectOverlap(p2.X + c2.OffsetX - Half(c2.HorizWidth),
                           p2.Y + c2.OffsetY - Half(c2.HorizHeight),
                           c2.HorizWidth, c2.HorizHeight,
                           p1.X + c1.OffsetX, p1.Y + c1.OffsetY, c1.Width, c1.Height)
            \/ rectOverlap(p2.X + c2.OffsetX - Half(c2.VertWidth),
                           p2.Y + c2.OffsetY - Half(c2.VertHeight),
                           c2.VertWidth, c2.VertHeight,
                           p1.X + c1.OffsetX, p1.Y + c1.OffsetY, c1.Width, c1.Height)
    IN  IF c1.CrossShape /\ c2.CrossShape THEN barsOfFirst \/ barsOfSecond
        ELSE IF c1.CrossShape THEN barsOfFirst
        ELSE IF c2.CrossShape THEN barsOfSecond
        ELSE rectOverlap(p1.X + c1.OffsetX, p1.Y + c1.OffsetY, c1.Width, c1.Height,
                         p2.X + c2.OffsetX, p2.Y + c2.OffsetY, c2.Width, c2.Height)

checkCollision(p1, c1, p2, c2) ==
    IF c1.CrossShape
    THEN \/ rectOverlap(p1.X + c1.OffsetX - Half(c1.HorizWidth),
                        p1.Y + c1.OffsetY - Half(c1.HorizHeight),
                        c1.HorizWidth, c1.HorizHeight,
                        p2.X + c2.OffsetX, p2.Y + c2.OffsetY, c2.Width, c2.Height)
         \/ rectOverlap(p1.X + c1.OffsetX - Half(c1.VertWidth),
                        p1.Y + c1.OffsetY - Half(c1.VertHeight),
                        c1.VertWidth, c1.VertHeight,
                        p2.X + c2.OffsetX, p2.Y + c2.OffsetY, c2.Width, c2.Height)
    ELSE IF c2.CrossShape
    THEN \/ rectOverlap(p2.X + c2.OffsetX - Half(c2.HorizWidth),
                        p2.Y + c2.OffsetY - Half(c2.HorizHeight),
                        c2.HorizWidth, c2.HorizHeight,
                        p1.X + c1.OffsetX, p1.Y + c1.OffsetY, c1.Width, c1.Height)
         \/ rectOverlap(p2.X + c2.OffsetX - Half(c2.VertWidth),
                        p2.Y + c2.OffsetY - Half(c2.VertHeight),
                        c2.VertWidth, c2.VertHeight,
                        p1.X + c1.OffsetX, p1.Y + c1.OffsetY, c1.Width, c1.Height)
    ELSE rectOverlap(p1.X + c1.OffsetX, p1.Y + c1.OffsetY, c1.Width, c1.Height,
                     p2.X + c2.OffsetX, p2.Y + c2.OffsetY, c2.Width, c2.Height)

\* fmt's %d of an unsigned number: its decimal digits, as a string of characters.
DigitChars == <<"0", "1", "2", "3", "4", "5", "6", "7", "8", "9">>

RECURSIVE FormatUint(_)
FormatUint(n) ==
    IF n < Len(DigitChars) THEN <<DigitChars[n + 1]>>
    ELSE FormatUint(n \div Len(DigitChars)) \o <<DigitChars[(n % Len(DigitChars)) + 1]>>

IsDigit(c) == \E d \in DOMAIN DigitChars : DigitChars[d] = c

DigitValue(c) == (CHOOSE d \in DOMAIN DigitChars : DigitChars[d] = c) - 1

\* fmt's scan of %d: the leading digits of s as a number, and what follows them.
RECURSIVE ScanUint(_, _)
ScanUint(s, acc) ==
    IF s # <<>> /\ IsDigit(Head(s))
    THEN ScanUint(Tail(s), acc * Len(DigitChars) + DigitValue(Head(s)))
    ELSE [value |-> acc, rest |-> s]

collisionKey(e1, e2) == FormatUint(e1) \o <<"-">> \o FormatUint(e2)

parseCollisionKey(key) ==
    LET first == ScanUint(key, 0)
        second == IF first.rest # <<>> /\ Head(first.rest) = "-"
                  THEN ScanUint(Tail(first.rest), 0)
                  ELSE [value |-> 0, rest |-> first.rest]
    IN  <<first.value, second.value>>

\* What Update carries through its loops: the two local maps, the stored
\* keys and the callbacks called so far.
Scan(prev) ==
    [processed |-> EmptyMap, currentCollisions |-> EmptyMap,
     previousCollisions |-> prev, fired |-> <<>>]

\* A variant of OnCollision that fires Enter without storing the key.
OnCollision_NoStore(st, handler, key, e1, e2) ==
    LET st1 == [st EXCEPT !.currentCollisions = Store(@, key, TRUE)]
    IN  IF key \notin DOMAIN st1.previousCollisions
        THEN [st1 EXCEPT !.fired = IF handler.Enter THEN Append(@, Fired("Enter", e1, e2)) ELSE @]
        ELSE [st1 EXCEPT !.fired = IF handler.Stay THEN Append(@, Fired("Stay", e1, e2)) ELSE @]

\* A variant of OnCollision that stores the key inside `if handler.Enter != nil`.
OnCollision_StoreOnEnter(st, handler, key, e1, e2) ==
    LET st1 == [st EXCEPT !.currentCollisions = Store(@, key, TRUE)]
    IN  IF key \notin DOMAIN st1.previousCollisions
        THEN IF handler.Enter
             THEN [st1 EXCEPT !.fired = Append(@, Fired("Enter", e1, e2)),
                              !.previousCollisions = Store(@, key, TRUE)]
             ELSE st1
        ELSE [st1 EXCEPT !.fired = IF handler.Stay THEN Append(@, Fired("Stay", e1, e2)) ELSE @]

\* The body of `if cm.checkCollision(...)`.
OnCollision(st, handler, key, e1, e2) ==
    LET st1 == [st EXCEPT !.currentCollisions = Store(@, key, TRUE)]
    IN  IF key \notin DOMAIN st1.previousCollisions
        THEN [st1 EXCEPT !.fired = IF handler.Enter THEN Append(@, Fired("Enter", e1, e2)) ELSE @,
                         !.previousCollisions = Store(@, key, TRUE)]
        ELSE [st1 EXCEPT !.fired = IF handler.Stay THEN Append(@, Fired("Stay", e1, e2)) ELSE @]

\* One turn of the inner loop, for e1 of the outer loop and e2 of the inner.
VisitPair(r, h, st, e1, e2) ==
    LET one == getComponents(r, e1)
        two == getComponents(r, e2)
        found == getHandler(h, one.c.Group, two.c.Group)
        key == collisionKey(e1, e2)
    IN  IF one.c.type = "nil" \/ one.p.type = "nil" \/ one.s.type = "nil" THEN st
        ELSE IF e1 = e2 THEN st
        ELSE IF two.c.type = "nil" \/ two.p.type = "nil" \/ two.s.type = "nil" THEN st
        ELSE IF ~found.ok THEN st
        ELSE IF key \in DOMAIN st.processed THEN st
        ELSE LET st1 == [st EXCEPT !.processed = Store(@, key, TRUE)]
             IN  IF checkCollision(one.p, one.c, two.p, two.c)
                 THEN OnCollision(st1, found.handler, key, e1, e2)
                 ELSE st1

\* The two nested loops over the slice of the query, k counting their turns.
RECURSIVE VisitPairs(_, _, _, _, _)
VisitPairs(r, h, st, ents, k) ==
    IF k > Len(ents) * Len(ents) THEN st
    ELSE VisitPairs(r, h,
                    VisitPair(r, h, st, ents[((k - 1) \div Len(ents)) + 1],
                                        ents[((k - 1) % Len(ents)) + 1]),
                    ents, k + 1)

\* A variant of LeaveKey that keeps the key of a pair whose groups have no
\* handler.
LeaveKey_KeepsUnhandled(r, h, st, k) ==
    IF k \in DOMAIN st.currentCollisions THEN st
    ELSE LET pair == parseCollisionKey(k)
             c1 == getComponents(r, pair[1]).c
             c2 == getComponents(r, pair[2]).c
             found == getHandler(h, c1.Group, c2.Group)
         IN  IF c1.type = "nil" \/ c2.type = "nil"
             THEN [st EXCEPT !.previousCollisions = Delete(@, k)]
             ELSE IF ~found.ok THEN st
             ELSE [st EXCEPT !.fired = IF found.handler.Leave
                                       THEN Append(@, Fired("Leave", pair[1], pair[2]))
                                       ELSE @,
                             !.previousCollisions = Delete(@, k)]

\* A variant of LeaveKey that returns without deleting the key of a pair
\* one of whose entities no longer has its components.
LeaveKey_KeepsLost(r, h, st, k) ==
    IF k \in DOMAIN st.currentCollisions THEN st
    ELSE LET pair == parseCollisionKey(k)
             c1 == getComponents(r, pair[1]).c
             c2 == getComponents(r, pair[2]).c
             found == getHandler(h, c1.Group, c2.Group)
         IN  IF c1.type = "nil" \/ c2.type = "nil"
             THEN st
             ELSE [st EXCEPT !.fired = IF found.ok /\ found.handler.Leave
                                       THEN Append(@, Fired("Leave", pair[1], pair[2]))
                                       ELSE @,
                             !.previousCollisions = Delete(@, k)]

\* The callback of the Range over previousCollisions, for key k.
LeaveKey(r, h, st, k) ==
    IF k \in DOMAIN st.currentCollisions THEN st
    ELSE LET pair == parseCollisionKey(k)
             c1 == getComponents(r, pair[1]).c
             c2 == getComponents(r, pair[2]).c
             found == getHandler(h, c1.Group, c2.Group)
         IN  IF c1.type = "nil" \/ c2.type = "nil"
             THEN [st EXCEPT !.previousCollisions = Delete(@, k)]
             ELSE [st EXCEPT !.fired = IF found.ok /\ found.handler.Leave
                                       THEN Append(@, Fired("Leave", pair[1], pair[2]))
                                       ELSE @,
                             !.previousCollisions = Delete(@, k)]

RECURSIVE LeaveKeys(_, _, _, _)
LeaveKeys(r, h, st, order) ==
    IF order = <<>> THEN st
    ELSE LeaveKeys(r, h, LeaveKey(r, h, st, Head(order)), Tail(order))

\* CollisionManager.Update: the outcomes it may have, one per order of the
\* query's slice and of the Range over the stored keys.
Update(r, h, prev) ==
    UNION { LET st == VisitPairs(r, h, Scan(prev), ents, 1)
            IN  { LeaveKeys(r, h, st, order) : order \in Range(st.previousCollisions) }
          : ents \in GetEntitiesWithComponents(r, {"collider", "position", "size"}) }

----------------------------------------------------------------------------
(* SpecColl: CollisionManager.Update called between changes of a world of  *)
(* two colliders: handlers are registered, the second entity moves,        *)
(* changes group, loses its collider or is removed.                        *)

BoxCollider(group) == ColliderComponent(group, FALSE, 0, 0, 10, 10, 0, 0, 0, 0)

CrossCollider(group) == ColliderComponent(group, TRUE, 5, 5, 10, 10, 30, 2, 2, 30)

CollGroups == {"player", "enemy"}

CollPlaces == { PositionComponent(0, 0), PositionComponent(12, 0), PositionComponent(40, 0) }

\* The registrations the game makes: all three callbacks one way round, only
\* Enter the other way round.
CollResolves ==
    { <<"player", "enemy", CollisionHandler(TRUE, TRUE, TRUE)>>,
      <<"enemy", "player", CollisionHandler(TRUE, FALSE, FALSE)>> }

AddBody(r, collider, position) ==
    LET a == AddEntity(r, <<>>)
        r1 == AddComponent(a.reg, a.id, "collider", collider)
        r2 == AddComponent(r1, a.id, "position", position)
    IN  AddComponent(r2, a.id, "size", SizeComponent(10, 10, 0, 0, 0, 0))

CollWorlds ==
    { AddBody(AddBody(NewECSManager, c, PositionComponent(0, 0)), BoxCollider("enemy"), p) :
        c \in {BoxCollider("player"), CrossCollider("player")}, p \in CollPlaces }

InitColl ==
    /\ \E w \in CollWorlds :
          /\ lastEntityID = w.lastEntityID
          /\ entities = w.entities
          /\ components = w.components
          /\ indentToEntity = w.indentToEntity
          /\ run = [i \in 1 .. w.lastEntityID |-> i]
    /\ ret = NoRet
    /\ panicked = FALSE
    /\ removed = {}
    /\ PhysicsIdle
    /\ CollisionsIdle
    /\ NoGoroutines
    /\ EngineIdle

\* cm.AddResolve(groupA, groupB, handler)
CallAddResolve(groupA, groupB, handler) ==
    /\ handlers' = AddResolve(handlers, groupA, groupB, handler)
    /\ UNCHANGED <<ecsVars, ret, panicked, run, removed, physVars, concVars, engineVars,
                   previousCollisions, fired, updates, trail>>

\* What the history keeps of one Update for the ordered pair (e1, e2).
Seen(r, h, e1, e2, calls, n) ==
    LET one == getComponents(r, e1)
        two == getComponents(r, e2)
        IsOfPair(f) == f.a = e1 /\ f.b = e2
        ofPair == SelectSeq(calls, IsOfPair)
    IN  [n |-> n,
         groups |-> <<one.c.Group, two.c.Group>>,
         handler |-> getHandler(h, one.c.Group, two.c.Group).handler,
         overlap |-> checkCollision(one.p, one.c, two.p, two.c),
         kinds |-> [i \in DOMAIN ofPair |-> ofPair[i].kind]]

\* (e1, e2) is a pair of live collidable entities whose groups have a handler.
Handled(r, h, e1, e2) ==
    /\ e1 # e2
    /\ \A e \in {e1, e2} :
          /\ e \in DOMAIN r.entities
          /\ getComponents(r, e).c.type # "nil"
    /\ getHandler(h, getComponents(r, e1).c.Group, getComponents(r, e2).c.Group).ok

\* The history after an Update that made the calls `calls`: the record of this Update
\* is added for every handled pair, after those of the Updates before if the
\* pair was handled then with the same groups; the other pairs start anew.
Trail(r, h, old, calls, n) ==
    LET all == 1 .. r.lastEntityID
        pairs == { p \in all \X all : Handled(r, h, p[1], p[2]) }
    IN  [p \in pairs |->
            LET now == Seen(r, h, p[1], p[2], calls, n)
            IN  IF p \in DOMAIN old /\ old[p][Len(old[p])].groups = now.groups
                THEN Append(old[p], now)
                ELSE <<now>>]

\* cm.Update()
CollUpdate ==
    /\ updates < MaxUpdates
    /\ \E out \in Update(Reg, handlers, previousCollisions) :
          /\ previousCollisions' = out.previousCollisions
          /\ fired' = out.fired
          /\ trail' = Trail(Reg, handlers, trail, out.fired, updates + 1)
    /\ updates' = updates + 1
    /\ UNCHANGED <<ecsVars, ret, panicked, run, removed, physVars, concVars, engineVars, handlers>>

NextColl ==
    \/ \E c \in CollResolves : CallAddResolve(c[1], c[2], c[3])
    \/ \E p \in CollPlaces : CallSetComponent(lastEntityID, <<"position", p>>)
    \/ \E g \in CollGroups : CallSetComponent(lastEntityID, <<"collider", BoxCollider(g)>>)
    \/ CallRemoveComponent(lastEntityID, "collider")
    \/ CallRemoveEntity(lastEntityID)
    \/ CollUpdate

SpecColl == InitColl /\ [][NextColl]_vars

----------------------------------------------------------------------------
(* Properties of CollisionManager.Update.                                  *)

\* The callbacks the transition law asks of one Update for one pair.
Expected(now, before, handler) ==
    IF now /\ ~before THEN (IF handler.Enter THEN <<"Enter">> ELSE <<>>)
    ELSE IF now /\ before THEN (IF handler.Stay THEN <<"Stay">> ELSE <<>>)
    ELSE IF before THEN (IF handler.Leave THEN <<"Leave">> ELSE <<>>)
    ELSE <<>>

\* The record of the first Update ever, or of an Update that found the pair
\* handled with the same groups as the Update before it did.
Lawful(p, k) == k > 1 \/ trail[p][k].n = 1

AllCallbacks(p, k) ==
    trail[p][k].handler.Enter /\ trail[p][k].handler.Stay /\ trail[p][k].handler.Leave

\* Four Updates in a row that saw the pair apart, overlapping, overlapping,
\* apart, the first of them with no overlap before it.
ApartTogetherTogetherApart(p, k) ==
    /\ k + 3 \in DOMAIN trail[p]
    /\ trail[p][k].n = 1 \/ (k > 1 /\ ~trail[p][k - 1].overlap)
    /\ \A i \in k .. k + 3 : AllCallbacks(p, i)
    /\ ~trail[p][k].overlap
    /\ trail[p][k + 1].overlap
    /\ trail[p][k + 2].overlap
    /\ ~trail[p][k + 3].overlap

\* C1: for an ordered pair (e1,e2) of live collidable entities whose groups
\* have a registered handler and are the same as at the previous Update, an
\* Update calls for that pair exactly: Enter(e1,e2) if the pair overlaps now
\* and did not at the previous Update, Stay(e1,e2) if it overlaps now and
\* did then, Leave(e1,e2) if it did then and does not now, nothing otherwise
\* (a callback that is nil is not called); so the Updates that see the pair
\* apart, overlapping, overlapping, apart call exactly Enter, Stay, Leave.
C1_TransitionLaw ==
    \A p \in DOMAIN trail : \A k \in DOMAIN trail[p] :
        /\ Lawful(p, k) =>
              trail[p][k].kinds =
                  Expected(trail[p][k].overlap, k > 1 /\ trail[p][k - 1].overlap,
                           trail[p][k].handler)
        /\ ApartTogetherTogetherApart(p, k) =>
              trail[p][k].kinds \o trail[p][k + 1].kinds \o trail[p][k + 2].kinds
                  \o trail[p][k + 3].kinds = <<"Enter", "Stay", "Leave">>

C1_Witness ==
    \E p \in DOMAIN trail : \E k \in DOMAIN trail[p] :
        /\ ApartTogetherTogetherApart(p, k)
        /\ trail[p][k].kinds = <<>>
        /\ trail[p][k + 1].kinds = <<"Enter">>
        /\ trail[p][k + 2].kinds = <<"Stay">>
        /\ trail[p][k + 3].kinds = <<"Leave">>
        /\ p \notin DOMAIN previousCollisions

----------------------------------------------------------------------------
(* Properties of DecodeEntity.                                             *)

\* The blob's components are the target's afterwards.
CarriesBlob(bytes, e) ==
    /\ e \in DOMAIN components'
    /\ \A n \in DOMAIN bytes.Components :
          /\ n \in DOMAIN components'[e]
          /\ components'[e][n] = bytes.Components[n]

\* C11: DecodeEntity of a well-formed blob whose stable id is mapped to a
\* live entity returns that entity, creates no entity and sets the blob's
\* components on it; if the stable id is not mapped, it creates exactly one
\* new entity, registered under the stable id and carrying the components.
C11_DecodeEntityUpsert ==
    [][ ret'.op = "DecodeEntity" =>
          \A bytes \in EntityBlobs :
              (bytes.Ident # "" /\ CallDecodeEntity(bytes)) =>
                  IF bytes.Ident \in DOMAIN indentToEntity
                  THEN indentToEntity[bytes.Ident] \in Live =>
                          /\ ~ret'.err
                          /\ ret'.id = indentToEntity[bytes.Ident]
                          /\ DOMAIN entities' = DOMAIN entities
                          /\ CarriesBlob(bytes, ret'.id)
                  ELSE /\ ~ret'.err
                       /\ ret'.id \notin DOMAIN entities
                       /\ DOMAIN entities' = (DOMAIN entities) \cup {ret'.id}
                       /\ bytes.Ident \in DOMAIN indentToEntity'
                       /\ indentToEntity'[bytes.Ident] = ret'.id
                       /\ CarriesBlob(bytes, ret'.id) ]_vars

----------------------------------------------------------------------------
(* Properties of one CollisionManager.Update, as steps of SpecColl.        *)

\* The step is a call of CollisionManager.Update.
IsUpdate == updates' = updates + 1

\* How often the Update of the step called the callback `kind` for (e1, e2).
Calls(kind, e1, e2) ==
    Cardinality({ i \in DOMAIN fired' : fired'[i] = Fired(kind, e1, e2) })

\* e was removed or has lost its collider, position or size.
Lost(e) == getComponents(Reg, e).c.type = "nil"

\* C12: a pair the previous Update recorded as overlapping, one entity of
\* which has since been removed or has lost its collider, position or
\* size, still gets Leave exactly once (its handler having a Leave
\* callback), and its key is dropped.
C12_LeaveAfterLoss ==
    [][ IsUpdate =>
          \A p \in DOMAIN trail :
              LET last == trail[p][Len(trail[p])]
                  key == collisionKey(p[1], p[2])
              IN  (/\ last.overlap
                   /\ last.handler.Leave
                   /\ key \in DOMAIN previousCollisions
                   /\ Lost(p[1]) \/ Lost(p[2]))
                  => /\ Calls("Leave", p[1], p[2]) = 1
                     /\ key \notin DOMAIN previousCollisions' ]_vars


IsEnterOrStay(f) == f.kind \in {"Enter", "Stay"}

\* C13: within one Update at most one of the ordered pairs (a,b) and (b,a)
\* gets an Enter or Stay callback.
C13_OncePerUnorderedPair ==
    \A i \in DOMAIN fired : \A j \in DOMAIN fired :
        ~(/\ IsEnterOrStay(fired[i])
          /\ IsEnterOrStay(fired[j])
          /\ fired[i].a = fired[j].b
          /\ fired[i].b = fired[j].a)


\* The group of a collidable entity.
GroupOf(e) == components[e]["collider"].Group

\* A handler is registered for (groupA, groupB).
Registered(groupA, groupB) == groupA \in DOMAIN handlers /\ groupB \in DOMAIN handlers[groupA]

\* The callback `kind` of the handler registered for (groupA, groupB) is not nil.
HasCallback(groupA, groupB, kind) ==
    /\ Registered(groupA, groupB)
    /\ \/ kind = "Enter" /\ handlers[groupA][groupB].Enter
       \/ kind = "Stay" /\ handlers[groupA][groupB].Stay
       \/ kind = "Leave" /\ handlers[groupA][groupB].Leave

\* The callback f was called on the pair in its matched order.
InMatchedOrder(f) ==
    LET key == collisionKey(f.a, f.b)
    IN  /\ ~Lost(f.a) /\ ~Lost(f.b)
        /\ HasCallback(GroupOf(f.a), GroupOf(f.b), f.kind)
        /\ (~Registered(GroupOf(f.b), GroupOf(f.a))) =>
               \A j \in DOMAIN fired' : ~(fired'[j].a = f.b /\ fired'[j].b = f.a)
        /\ IsEnterOrStay(f) =>
               checkCollision(components[f.a]["position"], components[f.a]["collider"],
                              components[f.b]["position"], components[f.b]["collider"])
        /\ f.kind = "Enter" => key \notin DOMAIN previousCollisions
        /\ f.kind = "Stay" => key \in DOMAIN previousCollisions
        /\ f.kind = "Leave" =>
               key \in DOMAIN previousCollisions /\ key \notin DOMAIN previousCollisions'

\* The key k is stored by the step for a pair matched in the key's order.
EnterTracked(k) ==
    LET p == parseCollisionKey(k)
    IN  /\ collisionKey(p[1], p[2]) = k
        /\ ~Lost(p[1]) /\ ~Lost(p[2])
        /\ Registered(GroupOf(p[1]), GroupOf(p[2]))
        /\ HasCallback(GroupOf(p[1]), GroupOf(p[2]), "Enter") => Calls("Enter", p[1], p[2]) = 1

\* C14: every callback of an Update is called with the entities in the
\* order (e1,e2) in which the pair was matched, and belongs to the handler
\* registered for (group(e1), group(e2)); with no handler for the reverse
\* groups, no callback is called on the reverse pair; a key is stored only
\* by an Update that matched the pair in that order, and Leave(x,y) is
\* called only for a pair whose key in that order was stored.
C14_DirectionalDispatch ==
    [][ /\ IsUpdate =>
              /\ \A i \in DOMAIN fired' : InMatchedOrder(fired'[i])
              /\ \A k \in (DOMAIN previousCollisions') \ (DOMAIN previousCollisions) :
                    EnterTracked(k)
        /\ ~IsUpdate => UNCHANGED previousCollisions ]_vars

\* An Update has called Leave for (x,y) with handlers for one order only.
C14_Witness ==
    /\ \E i \in DOMAIN fired : fired[i].kind = "Leave"
    /\ Cardinality(DOMAIN handlers) = 1

----------------------------------------------------------------------------
(* SpecShape: checkCollision on pairs of box and cross colliders.  The     *)
(* world is drawn at the start; handlers are registered and Update runs.   *)

ShapePlaces ==
    { PositionComponent(0, 0), PositionComponent(12, 0), PositionComponent(-16, 0),
      PositionComponent(0, 22), PositionComponent(40, 0),
      PositionComponent(10, 0), PositionComponent(10, 10), PositionComponent(9, 9) }

ShapeWorlds ==
    { AddBody(AddBody(NewECSManager, c1, PositionComponent(0, 0)), c2, p) :
        c1 \in {BoxCollider("player"), CrossCollider("player")},
        c2 \in {BoxCollider("enemy"), CrossCollider("enemy")},
        p \in ShapePlaces }

InitShape ==
    /\ \E w \in ShapeWorlds :
          /\ lastEntityID = w.lastEntityID
          /\ entities = w.entities
          /\ components = w.components
          /\ indentToEntity = w.indentToEntity
          /\ run = [i \in 1 .. w.lastEntityID |-> i]
    /\ ret = NoRet
    /\ panicked = FALSE
    /\ removed = {}
    /\ PhysicsIdle
    /\ CollisionsIdle
    /\ NoGoroutines
    /\ EngineIdle

NextShape ==
    \/ \E c \in CollResolves : CallAddResolve(c[1], c[2], c[3])
    \/ CollUpdate

SpecShape == InitShape /\ [][NextShape]_vars

\* An offset rectangle, as its corner and its sides.
Rectangle(x, y, w, h) == [x |-> x, y |-> y, w |-> w, h |-> h]

SingleRectangle(p, c) == Rectangle(p.X + c.OffsetX, p.Y + c.OffsetY, c.Width, c.Height)

HorizontalBar(p, c) ==
    Rectangle(p.X + c.OffsetX - (c.HorizWidth \div 2), p.Y + c.OffsetY - (c.HorizHeight \div 2),
              c.HorizWidth, c.HorizHeight)

VerticalBar(p, c) ==
    Rectangle(p.X + c.OffsetX - (c.VertWidth \div 2), p.Y + c.OffsetY - (c.VertHeight \div 2),
              c.VertWidth, c.VertHeight)

\* Two rectangles overlap on both axes, edges not counting.
Meets(a, b) == a.x < b.x + b.w /\ b.x < a.x + a.w /\ a.y < b.y + b.h /\ b.y < a.y + a.h

\* The reference of C15.
ReferenceOverlap(p1, c1, p2, c2) ==
    IF c1.CrossShape
    THEN Meets(HorizontalBar(p1, c1), SingleRectangle(p2, c2))
         \/ Meets(VerticalBar(p1, c1), SingleRectangle(p2, c2))
    ELSE IF c2.CrossShape
    THEN Meets(HorizontalBar(p2, c2), SingleRectangle(p1, c1))
         \/ Meets(VerticalBar(p2, c2), SingleRectangle(p1, c1))
    ELSE Meets(SingleRectangle(p1, c1), SingleRectangle(p2, c2))

ReferenceOf(e1, e2) ==
    ReferenceOverlap(components[e1]["position"], components[e1]["collider"],
                     components[e2]["position"], components[e2]["collider"])

\* C15: what Update took checkCollision(e1,e2) to be, and acted on, is the
\* reference: the bars of e1 against the single rectangle of e2 if e1 is a
\* cross, else the bars of e2 against the single rectangle of e1 if e2 is
\* a cross, else the two single rectangles.
C15_CheckCollisionReference ==
    \A p \in DOMAIN trail : \A k \in DOMAIN trail[p] :
        /\ trail[p][k].overlap = ReferenceOf(p[1], p[2])
        /\ (k = 1 /\ trail[p][k].handler.Enter) =>
               (trail[p][k].kinds = <<"Enter">>) = ReferenceOf(p[1], p[2])

\* Two crosses that overlap taken as (1,2) and do not taken as (2,1).
C15_Witness ==
    /\ <<1, 2>> \in DOMAIN trail
    /\ <<2, 1>> \in DOMAIN trail
    /\ components[1]["collider"].CrossShape
    /\ components[2]["collider"].CrossShape
    /\ trail[<<1, 2>>][1].overlap
    /\ ~trail[<<2, 1>>][1].overlap
    /\ trail[<<1, 2>>][1].n = trail[<<2, 1>>][1].n
    /\ \E i \in DOMAIN fired : fired[i] = Fired("Enter", 1, 2)
    /\ \A i \in DOMAIN fired : fired[i] # Fired("Enter", 2, 1)

----------------------------------------------------------------------------
(* The barrier of PhysicsSystem.Update                                     *)

Movers == { e \in Live : \A n \in {"position", "velocity", "size"} : HasComponent(Reg, e, n) }

AllTasksDone == \A e \in DOMAIN task : task[e].pc = "done"

\* Update starts: one task per mover, each at its first line.
StartsOnePerMover ==
    (~running /\ running') =>
        /\ AllTasksDone
        /\ DOMAIN task' = Movers
        /\ \A e \in Movers : task'[e] = Locals("start")

\* A task ends by writing its candidate into its entity's position.
EndsByCommit ==
    \A e \in DOMAIN task :
        (running /\ running' /\ task[e].pc # "done" /\ task'[e].pc = "done") =>
            /\ task[e].pc = "commitY"
            /\ components'[e]["position"].X = task[e].newX
            /\ components'[e]["position"].Y = task[e].newY

\* Update returns: every task has ended.
ReturnsAfterAll == (running /\ ~running') => AllTasksDone /\ UNCHANGED components

\* C16: Update starts one task per entity with position, velocity and size
\* and returns only after each has committed its position; whenever the
\* caller has control (and so could start the next tick or the collision
\* pass) no task is running; and under fair scheduling a started Update
\* returns.
C16_Barrier ==
    /\ [][StartsOnePerMover /\ EndsByCommit /\ ReturnsAfterAll]_vars
    /\ [](~running => AllTasksDone)
    /\ (running ~> ~running)

\* An Update of two tasks has returned and has moved an entity.
C16_Witness ==
    /\ ~running
    /\ tick = 1
    /\ Cardinality(DOMAIN task) >= 2
    /\ \E e \in DOMAIN task : components[e]["position"] # pre[e]["position"]

----------------------------------------------------------------------------
(* Interleavings of the tasks of one tick                                  *)

\* What the tick leaves of e in the interleaving where the goroutine of e
\* runs from its first line to its last before any other goroutine writes.
RunsFirst(e) == Blocked(e, Obstacles(e))

\* C17: the positions and velocities after one Update are the same for
\* every interleaving of the tasks, also when a solid carries velocity and
\* is moved in the same tick; so they are those of the interleaving in
\* which the entity's own task runs first.
C17_InterleavingIndependent ==
    (~running /\ tick = 1) =>
        \A e \in DOMAIN task :
            /\ components[e]["position"] = RunsFirst(e).position
            /\ components[e]["velocity"] = RunsFirst(e).velocity


\* In this step the goroutine of e passes the position of o to isColliding.
ReadsPosition(e, o) ==
    /\ e \in DOMAIN task
    /\ task[e].pc \in {"loop", "testY"}
    /\ task[e].i <= Len(task[e].solidEntities)
    /\ task[e].solidEntities[task[e].i] = o
    /\ \/ task[e].pc = "loop" /\ task'[e].pc = "testY"
       \/ task[e].pc = "testY" /\ task'[e].pc = "loop"

\* The position of o is neither the one before its task's update nor the
\* one after it.
Torn(o) ==
    /\ o \in DOMAIN task
    /\ task[o].pc = "commitY"
    /\ components[o]["position"] # pre[o]["position"]
    /\ components[o]["position"] # PositionComponent(task[o].newX, task[o].newY)

\* C18: a task that reads the position of an entity another task is
\* updating sees the whole value before the update or the whole value
\* after it, never the new x with the old y.
C18_NoTornRead ==
    [][\A e \in Ids : \A o \in Ids : ReadsPosition(e, o) => ~Torn(o)]_vars

----------------------------------------------------------------------------
(* SpecRace and SpecQuery: calls on the registry from two goroutines.  A   *)
(* step is one operation on a sync.Map (or on the atomic counter); what a  *)
(* call does between two of them is local to its goroutine.                *)

\* Calls explored, the query of SpecQuery not counted.
MaxCalls == 2

\* GetEntitiesWithComponents("a", "b")
QueryNames == <<"a", "b">>

\* The *sync.Map made for e by AddEntity: in components, or deleted from it.
InnerMap(e) == IF e \in DOMAIN components THEN components[e] ELSE orphans[e]

\* A write through a pointer to that map.
WriteInner(e, m) ==
    IF e \in DOMAIN components
    THEN components' = [components EXCEPT ![e] = m] /\ UNCHANGED orphans
    ELSE orphans' = [orphans EXCEPT ![e] = m] /\ UNCHANGED components

\* History: while the query runs, the set of live entities holding all of
\* QueryNames after this step.
Observe ==
    instants' =
        IF \E g \in Goroutines : gor[g].op = "GetEntitiesWithComponents" /\ gor[g].pc # "returned"
        THEN instants \cup
               { { e \in DOMAIN entities' :
                     /\ e \in DOMAIN components'
                     /\ \A i \in DOMAIN QueryNames : QueryNames[i] \in DOMAIN components'[e] } }
        ELSE instants

\* A goroutine enters a call.
Start(g) ==
    /\ ~panicked
    /\ gor[g].pc = "idle"
    /\ started < MaxCalls
    /\ started' = started + 1

\* AddEntity(): the atomic add and entities.Store
GoAddEntity(g) ==
    /\ Start(g)
    /\ lastEntityID < MaxId
    /\ lastEntityID' = lastEntityID + 1
    /\ entities' = Store(entities, lastEntityID + 1, TRUE)
    /\ gor' = [gor EXCEPT ![g] = Frame("AddEntity", "storeComponents", lastEntityID + 1, "")]
    /\ UNCHANGED <<components, indentToEntity, orphans, ret, panicked, run, removed,
                   physVars, collVars, engineVars>>
    /\ Observe

\* AddEntity(): components.Store, and the return
AddEntityStoreComponents(g) ==
    /\ gor[g].op = "AddEntity"
    /\ gor[g].pc = "storeComponents"
    /\ components' = Store(components, gor[g].e, EmptyMap)
    /\ run' = Append(run, gor[g].e)
    /\ gor' = [gor EXCEPT ![g] = Frame("", "idle", 0, "")]
    /\ UNCHANGED <<lastEntityID, entities, indentToEntity, orphans, started, ret, panicked,
                   removed, physVars, collVars, engineVars>>
    /\ Observe

\* RemoveEntity(e): the Range over indentToEntity and entities.Delete
GoRemoveEntity(g, e) ==
    /\ Start(g)
    /\ IF FirstIdentOf(Reg, e) = {}
       THEN UNCHANGED indentToEntity
       ELSE \E k \in FirstIdentOf(Reg, e) : indentToEntity' = Delete(indentToEntity, k)
    /\ entities' = Delete(entities, e)
    /\ removed' = IF e \in issued THEN removed \cup {e} ELSE removed
    /\ gor' = [gor EXCEPT ![g] = Frame("RemoveEntity", "deleteComponents", e, "")]
    /\ UNCHANGED <<lastEntityID, components, orphans, ret, panicked, run, physVars, collVars, engineVars>>
    /\ Observe

\* RemoveEntity(e): components.Delete, and the return
RemoveEntityDeleteComponents(g) ==
    /\ gor[g].op = "RemoveEntity"
    /\ gor[g].pc = "deleteComponents"
    /\ components' = Delete(components, gor[g].e)
    /\ orphans' = IF gor[g].e \in DOMAIN components
                  THEN Store(orphans, gor[g].e, components[gor[g].e])
                  ELSE orphans
    /\ gor' = [gor EXCEPT ![g] = Frame("", "idle", 0, "")]
    /\ UNCHANGED <<lastEntityID, entities, indentToEntity, started, ret, panicked, run, removed,
                   physVars, collVars, engineVars>>
    /\ Observe

\* e.AddComponent(name, comp), e an entity AddEntity has returned:
\* entities.Load; the call returns if e is not there
GoAddComponent(g, e, name) ==
    /\ Start(g)
    /\ e \in issued
    /\ gor' = [gor EXCEPT ![g] = IF e \in DOMAIN entities
                                 THEN Frame("AddComponent", "store", e, name)
                                 ELSE Frame("", "idle", 0, "")]
    /\ UNCHANGED <<ecsVars, orphans, ret, panicked, run, removed, physVars, collVars, engineVars>>
    /\ Observe

\* e.AddComponent(name, comp): v, _ := components.Load(e), then
\* v.(*sync.Map).Store(name, comp); the assertion panics on a nil v.
AddComponentStore(g) ==
    /\ ~panicked
    /\ gor[g].op = "AddComponent"
    /\ gor[g].pc = "store"
    /\ IF gor[g].e \in DOMAIN components
       THEN /\ components' = [components EXCEPT ![gor[g].e] =
                                 Store(components[gor[g].e], gor[g].name, BoolVal(TRUE))]
            /\ gor' = [gor EXCEPT ![g] = Frame("", "idle", 0, "")]
            /\ UNCHANGED panicked
       ELSE /\ panicked' = TRUE
            /\ UNCHANGED <<components, gor>>
    /\ UNCHANGED <<lastEntityID, entities, indentToEntity, orphans, started, ret, run, removed,
                   physVars, collVars, engineVars>>
    /\ Observe

\* SetComponent, GetComponent, HasComponent, RemoveComponent on an entity
\* AddEntity has returned: components.Load; the call returns if e has no map.
GoComponentCall(g, op, e, name) ==
    /\ Start(g)
    /\ e \in issued
    /\ gor' = [gor EXCEPT ![g] = IF e \in DOMAIN components
                                 THEN Frame(op, "act", e, name)
                                 ELSE Frame("", "idle", 0, "")]
    /\ UNCHANGED <<ecsVars, orphans, ret, panicked, run, removed, physVars, collVars, engineVars>>
    /\ Observe

\* ... then the Store, Load or Delete on the map the call holds.
ComponentAct(g) ==
    /\ ~panicked
    /\ gor[g].pc = "act"
    /\ LET e == gor[g].e
           name == gor[g].name
       IN  CASE gor[g].op = "SetComponent" -> WriteInner(e, Store(InnerMap(e), name, BoolVal(TRUE)))
             [] gor[g].op = "RemoveComponent" -> WriteInner(e, Delete(InnerMap(e), name))
             [] OTHER -> UNCHANGED <<components, orphans>>
    /\ gor' = [gor EXCEPT ![g] = Frame("", "idle", 0, "")]
    /\ UNCHANGED <<lastEntityID, entities, indentToEntity, started, ret, panicked, run, removed,
                   physVars, collVars, engineVars>>
    /\ Observe

\* GetEntitiesWithComponents(QueryNames...) is called: Range begins.
QueryStart(g) ==
    /\ ~panicked
    /\ gor[g].pc = "idle"
    /\ gor' = [gor EXCEPT ![g] = Frame("GetEntitiesWithComponents", "range", 0, "")]
    /\ instants' = { { e \in DOMAIN entities :
                         /\ e \in DOMAIN components
                         /\ \A i \in DOMAIN QueryNames : QueryNames[i] \in DOMAIN components[e] } }
    /\ UNCHANGED <<ecsVars, orphans, started, ret, panicked, run, removed, physVars, collVars, engineVars>>

\* Range calls the callback on a key it has not visited; the callback does
\* components.Load(e) and returns if it finds no map.
QueryVisit(g) ==
    /\ gor[g].op = "GetEntitiesWithComponents"
    /\ gor[g].pc = "range"
    /\ \E e \in DOMAIN entities \ gor[g].seen :
          gor' = [gor EXCEPT ![g].seen = gor[g].seen \cup {e},
                             ![g].e = e,
                             ![g].idx = 1,
                             ![g].pc = IF e \in DOMAIN components THEN "names" ELSE "range"]
    /\ UNCHANGED <<ecsVars, orphans, started, instants, ret, panicked, run, removed,
                   physVars, collVars, engineVars>>

\* cm.Load(n) for the next name; after the last name, the append.
QueryName(g) ==
    /\ gor[g].op = "GetEntitiesWithComponents"
    /\ gor[g].pc = "names"
    /\ LET f == gor[g]
       IN  gor' = [gor EXCEPT ![g] =
                     IF QueryNames[f.idx] \notin DOMAIN InnerMap(f.e)
                     THEN [f EXCEPT !.pc = "range"]
                     ELSE IF f.idx < Len(QueryNames)
                     THEN [f EXCEPT !.idx = f.idx + 1]
                     ELSE [f EXCEPT !.pc = "range", !.result = Append(f.result, f.e)]]
    /\ UNCHANGED <<ecsVars, orphans, started, instants, ret, panicked, run, removed,
                   physVars, collVars, engineVars>>

\* Range has no key left to visit: the slice is returned.
QueryReturn(g) ==
    /\ gor[g].op = "GetEntitiesWithComponents"
    /\ gor[g].pc = "range"
    /\ DOMAIN entities \subseteq gor[g].seen
    /\ gor' = [gor EXCEPT ![g].pc = "returned"]
    /\ UNCHANGED <<ecsVars, orphans, started, instants, ret, panicked, run, removed,
                   physVars, collVars, engineVars>>

\* The registries the goroutines find: one or two entities with components.
ConcWorlds ==
    LET with(r, names) ==
            LET a == AddEntity(r, <<>>)
                r1 == IF "a" \in names THEN AddComponent(a.reg, a.id, "a", BoolVal(TRUE)) ELSE a.reg
            IN  IF "b" \in names THEN AddComponent(r1, a.id, "b", BoolVal(TRUE)) ELSE r1
        one == { with(NewECSManager, n) : n \in { {"a"}, {"a", "b"} } }
    IN  one \cup { with(r, {"a", "b"}) : r \in one }

InitConc ==
    /\ \E w \in ConcWorlds :
          /\ lastEntityID = w.lastEntityID
          /\ entities = w.entities
          /\ components = w.components
          /\ indentToEntity = w.indentToEntity
          /\ run = [i \in 1 .. w.lastEntityID |-> i]
    /\ ret = NoRet
    /\ panicked = FALSE
    /\ removed = {}
    /\ PhysicsIdle
    /\ CollisionsIdle
    /\ NoGoroutines
    /\ EngineIdle

\* Two goroutines call the entity and component operations.
NextRace ==
    \E g \in Goroutines :
        \/ GoAddEntity(g)
        \/ AddEntityStoreComponents(g)
        \/ \E e \in Ids : GoRemoveEntity(g, e)
        \/ RemoveEntityDeleteComponents(g)
        \/ \E e \in Ids : GoAddComponent(g, e, "a")
        \/ AddComponentStore(g)
        \/ \E e \in Ids :
             \E op \in {"SetComponent", "GetComponent", "HasComponent", "RemoveComponent"} :
                GoComponentCall(g, op, e, "a")
        \/ ComponentAct(g)

SpecRace == InitConc /\ [][NextRace]_vars

\* Goroutine g1 runs the query while g2 changes the registry.
NextQuery ==
    \/ QueryStart("g1")
    \/ QueryVisit("g1")
    \/ QueryName("g1")
    \/ QueryReturn("g1")
    \/ GoAddEntity("g2")
    \/ AddEntityStoreComponents("g2")
    \/ \E e \in Ids : GoRemoveEntity("g2", e)
    \/ RemoveEntityDeleteComponents("g2")
    \/ \E e \in Ids : \E i \in DOMAIN QueryNames : GoAddComponent("g2", e, QueryNames[i])
    \/ AddComponentStore("g2")
    \/ \E e \in Ids : \E i \in DOMAIN QueryNames :
          GoComponentCall("g2", "RemoveComponent", e, QueryNames[i])
    \/ ComponentAct("g2")

SpecQuery == InitConc /\ [][NextQuery]_vars

\* C19: a component call on e that runs while another goroutine removes e
\* (or adds or removes entities) never crashes the process.
C19_NoCrash == ~panicked

\* C20: the slice GetEntitiesWithComponents returns while other goroutines
\* change the registry holds no entity twice, and at one instant of the
\* call all its entities were live and held every name asked for.
C20_ConsistentSnapshot ==
    \A g \in Goroutines :
        (gor[g].op = "GetEntitiesWithComponents" /\ gor[g].pc = "returned") =>
            /\ \A i, j \in DOMAIN gor[g].result :
                  gor[g].result[i] = gor[g].result[j] => i = j
            /\ \E at \in instants : Elems(gor[g].result) \subseteq at

----------------------------------------------------------------------------
(* The registry between and inside its calls                               *)

\* C21: in every state, those inside AddEntity and RemoveEntity included,
\* an id is in the live-entity set iff it has a component store.
C21_EntityIffStore == DOMAIN entities = DOMAIN components


\* The ids that are not live: never created, or removed.
Absent == Ids \ DOMAIN entities

\* C22: on an id that was never created or has been removed, AddComponent,
\* SetComponent, RemoveComponent and RemoveEntity leave the registry as it
\* is, GetComponent returns nil and HasComponent returns false.
C22_AbsentNoOp ==
    \A e \in Absent :
        /\ RemoveEntity(Reg, e) = {Reg}
        /\ \A c \in CompInputs :
              /\ AddComponent(Reg, e, c[1], c[2]) = Reg
              /\ SetComponent(Reg, e, c[1], c[2]) = Reg
        /\ \A n \in Names \cup {"persistent"} :
              /\ RemoveComponent(Reg, e, n) = Reg
              /\ GetComponent(Reg, e, n).type = "nil"
              /\ ~HasComponent(Reg, e, n)

\* An entity has been removed while another holds components, and the
\* last call was one that returns nothing.
C22_Witness ==
    /\ \E e \in removed : e \in Absent
    /\ \E e \in DOMAIN components : components[e] # EmptyMap
    /\ ret = NoRet


\* The live entities that carry a component named persistent.
Persistent == { e \in DOMAIN entities : HasComponent(Reg, e, "persistent") }

\* C23: RemoveEntities leaves live exactly the entities that carried a
\* component named persistent, whatever its value, with their components
\* and stable ids as they were; the stores and stable ids of the others
\* are gone.
C23_RemoveAllTransient ==
    [][ CallRemoveEntities =>
          /\ DOMAIN entities' = Persistent
          /\ DOMAIN components' = Persistent
          /\ \A e \in Persistent : components'[e] = components[e]
          /\ DOMAIN indentToEntity' =
                 { k \in DOMAIN indentToEntity : indentToEntity[k] \in Persistent }
          /\ \A k \in DOMAIN indentToEntity' : indentToEntity'[k] = indentToEntity[k] ]_vars


\* C24: EncodeEntity on an id that is not live does not crash: it returns
\* (a blob or an error) and leaves the registry unchanged.
C24_EncodeAbsentEntity ==
    [][ \A e \in Absent : CallEncodeEntity(e) => (~panicked' /\ UNCHANGED ecsVars) ]_vars

----------------------------------------------------------------------------
(* SpecProbe: PhysicsSystem.CheckIfColliding, asked about entities that    *)
(* have lost components as well as about whole ones.                       *)

\* A variant of CheckIfColliding that answers true for an entity without
\* position or size.
CheckIfColliding_Unguarded(r, entity, newx, newy) ==
    LET pos == GetComponent(r, entity, "position")
        size == GetComponent(r, entity, "size")
    IN  IF pos.type # "*PositionComponent" \/ size.type # "*SizeComponent"
        THEN TRUE
        ELSE \E other \in DOMAIN r.entities \ {entity} :
                /\ Matches(r, other, {"position", "size", "solid"})
                /\ \/ isColliding(newx, pos.Y, size, r.components[other]["position"],
                                  r.components[other]["size"])
                   \/ isColliding(pos.X, newy, size, r.components[other]["position"],
                                  r.components[other]["size"])

\* CheckIfColliding(entity, newx, newy): the loop returns true at the first
\* solid that one of the two tests hits, so the answer is that of any order.
CheckIfColliding(r, entity, newx, newy) ==
    LET pos == GetComponent(r, entity, "position")
        size == GetComponent(r, entity, "size")
    IN  IF pos.type # "*PositionComponent" \/ size.type # "*SizeComponent"
        THEN FALSE
        ELSE \E other \in DOMAIN r.entities \ {entity} :
                /\ Matches(r, other, {"position", "size", "solid"})
                /\ GetComponent(r, other, "position").type = "*PositionComponent"
                /\ GetComponent(r, other, "size").type = "*SizeComponent"
                /\ \/ isColliding(newx, pos.Y, size, r.components[other]["position"],
                                  r.components[other]["size"])
                   \/ isColliding(pos.X, newy, size, r.components[other]["position"],
                                  r.components[other]["size"])

CallCheckIfColliding(entity, newx, newy) ==
    /\ ~panicked
    /\ ~running
    /\ ret' = [op |-> "CheckIfColliding", err |-> FALSE, id |-> entity,
               colliding |-> CheckIfColliding(Reg, entity, newx, newy)]
    /\ UNCHANGED <<ecsVars, panicked, run, removed, sysVars>>

NextProbe ==
    \/ \E e \in Ids, x \in {0, 5, 20}, y \in {0, 5} : CallCheckIfColliding(e, x, y)
    \/ \E e \in Ids, n \in {"position", "size"} : CallRemoveComponent(e, n)

SpecProbe == InitBarrier /\ [][NextProbe]_vars

\* C25: CheckIfColliding changes no component and nothing of the registry,
\* and answers false for an entity without position or size.
C25_ProbeIsPure ==
    [][ \A e \in Ids : \A x \in {0, 5, 20} : \A y \in {0, 5} :
          CallCheckIfColliding(e, x, y) =>
              /\ UNCHANGED ecsVars
              /\ (~HasComponent(Reg, e, "position") \/ ~HasComponent(Reg, e, "size"))
                     => ~ret'.colliding ]_vars

\* The probe has been asked about an entity that has a position and has
\* lost its size, next to a solid, and has answered false.
C25_Witness ==
    /\ ret.op = "CheckIfColliding"
    /\ ~HasComponent(Reg, ret.id, "size")
    /\ HasComponent(Reg, ret.id, "position")
    /\ ~ret.colliding
    /\ \E o \in DOMAIN entities : HasComponent(Reg, o, "solid") /\ o # ret.id

----------------------------------------------------------------------------
(* SpecLoop: the driver.  Loop.Update calls UpdateScenes and, when it has  *)
(* returned, CollisionManager.Update.  The scene of the model calls        *)
(* PhysicsSystem.Update once.  The driver has made as many collision       *)
(* passes as ticks when it enters Loop.Update, and one less when           *)
(* UpdateScenes has returned.                                              *)

\* Mscenes.UpdateScenes(1.0 / 60.0): the scene calls PhysicsSystem.Update.
SceneUpdate == tick = updates /\ UpdateBegin

\* A variant of CollisionPass that does not wait for UpdateScenes to return.
CollisionPass_Early == CollUpdate

\* Mcolliders.Update(), the statement after UpdateScenes.
CollisionPass == tick = updates + 1 /\ CollUpdate

NextLoop ==
    \/ SceneUpdate
    \/ \E e \in DOMAIN task : processEntity(e)
    \/ UpdateEnd
    \/ CollisionPass

SpecLoop == InitBarrier /\ [][NextLoop]_vars

\* C26: CollisionManager.Update starts only when the scene update of the
\* driver tick, the PhysicsSystem.Update it made and every task of that
\* Update have completed, and the pass starts no task of its own.
C26_CollisionAfterPhysics ==
    [][ IsUpdate =>
          /\ ~running
          /\ AllTasksDone
          /\ tick = updates + 1
          /\ UNCHANGED <<task, running, tick>> ]_vars

\* A driver tick has ended whose physics Update ran two tasks and moved an
\* entity.
C26_Witness ==
    /\ updates = 1
    /\ tick = 1
    /\ Cardinality(DOMAIN task) >= 2
    /\ \E e \in DOMAIN task : components[e]["position"] # pre[e]["position"]

----------------------------------------------------------------------------
(* Where a tick leaves an entity                                           *)

\* The padded rectangle of e at (x, y) overlaps a solid e is tested against.
OverlapsAt(e, x, y) ==
    \E o \in Obstacles(e) : isColliding(x, y, pre[e]["size"], pre[o]["position"], pre[o]["size"])

\* C27: an entity that overlapped no non-excluded solid before the tick
\* overlaps none at the position the tick commits, no solid moving during
\* the tick, whatever its velocity.
C27_NoOverlapAfterTick ==
    \A e \in DOMAIN task :
        ( /\ Processed(e)
          /\ \A o \in Obstacles(e) : Static(o)
          /\ ~OverlapsAt(e, pre[e]["position"].X, pre[e]["position"].Y) )
        => ~OverlapsAt(e, components[e]["position"].X, components[e]["position"].Y)

----------------------------------------------------------------------------
(* Pairs without a handler, and handlers without a callback                *)

\* The ordered pairs of distinct entities that have collider, position, size.
Collidable == { p \in Ids \X Ids : p[1] # p[2] /\ ~Lost(p[1]) /\ ~Lost(p[2]) }

OverlapsNow(p) ==
    checkCollision(components[p[1]]["position"], components[p[1]]["collider"],
                   components[p[2]]["position"], components[p[2]]["collider"])

\* C28: an Update leaves no key and calls no callback for a pair whose
\* groups have no handler; and for an overlapping pair whose groups have a
\* handler now and that the Update before did not handle, it calls Enter
\* (never Stay) and stores the key.
C28_UnregisteredUntracked ==
    [][ IsUpdate =>
          \A p \in Collidable :
              /\ ~Registered(GroupOf(p[1]), GroupOf(p[2])) =>
                    /\ collisionKey(p[1], p[2]) \notin DOMAIN previousCollisions'
                    /\ \A kind \in {"Enter", "Stay", "Leave"} : Calls(kind, p[1], p[2]) = 0
              /\ ( /\ Registered(GroupOf(p[1]), GroupOf(p[2]))
                   /\ updates >= 1
                   /\ p \notin DOMAIN trail
                   /\ OverlapsNow(p) ) =>
                    /\ Calls("Stay", p[1], p[2]) = 0
                    /\ HasCallback(GroupOf(p[1]), GroupOf(p[2]), "Enter")
                           => Calls("Enter", p[1], p[2]) = 1
                    /\ collisionKey(p[1], p[2]) \in DOMAIN previousCollisions' ]_vars

\* The second Update is the first to handle the overlapping pair (1,2), and
\* has called Enter for it.
C28_Witness ==
    /\ updates = 2
    /\ <<1, 2>> \in DOMAIN trail
    /\ Len(trail[<<1, 2>>]) = 1
    /\ trail[<<1, 2>>][1].n = 2
    /\ trail[<<1, 2>>][1].overlap
    /\ trail[<<1, 2>>][1].kinds = <<"Enter">>


\* SpecNil: handlers that lack a callback, all but Enter one way round and
\* all but Leave the other, on a pair that meets and parts.
NextNil ==
    \/ CallAddResolve("enemy", "player", CollisionHandler(FALSE, TRUE, TRUE))
    \/ CallAddResolve("player", "enemy", CollisionHandler(TRUE, TRUE, FALSE))
    \/ \E p \in CollPlaces : CallSetComponent(lastEntityID, <<"position", p>>)
    \/ CollUpdate

SpecNil == InitColl /\ [][NextNil]_vars

\* Three Updates in a row that saw the pair overlapping, overlapping, apart
\* under a handler without Enter, the first with no overlap before it.
TogetherTogetherApartNoEnter(p, k) ==
    /\ k + 2 \in DOMAIN trail[p]
    /\ trail[p][k].n = 1 \/ (k > 1 /\ ~trail[p][k - 1].overlap)
    /\ \A i \in k .. k + 2 :
          ~trail[p][i].handler.Enter /\ trail[p][i].handler.Stay /\ trail[p][i].handler.Leave
    /\ trail[p][k].overlap
    /\ trail[p][k + 1].overlap
    /\ ~trail[p][k + 2].overlap

\* C29: a nil callback is not called and changes nothing else.  After an
\* Update the key of a handled pair is stored iff the pair overlaps,
\* whichever callbacks its handler has (so the key is dropped when the
\* overlap ends under a handler without Leave); and under a handler
\* without Enter the Updates that see the pair overlapping, overlapping,
\* apart call exactly Stay, Leave.
C29_NilCallbacks ==
    /\ [][ IsUpdate =>
             \A p \in Collidable :
                 Registered(GroupOf(p[1]), GroupOf(p[2])) =>
                     (collisionKey(p[1], p[2]) \in DOMAIN previousCollisions') = OverlapsNow(p) ]_vars
    /\ [](\A p \in DOMAIN trail : \A k \in DOMAIN trail[p] :
            TogetherTogetherApartNoEnter(p, k) =>
                /\ trail[p][k].kinds = <<>>
                /\ trail[p][k + 1].kinds = <<"Stay">>
                /\ trail[p][k + 2].kinds = <<"Leave">>)

\* The sequence overlapping, overlapping, apart has been seen under a
\* handler without Enter, and under a handler without Leave the same
\* Update has seen the overlap end: both keys are gone.
C29_Witness ==
    /\ <<2, 1>> \in DOMAIN trail
    /\ \E k \in DOMAIN trail[<<2, 1>>] :
          /\ TogetherTogetherApartNoEnter(<<2, 1>>, k)
          /\ k + 2 = Len(trail[<<2, 1>>])
          /\ trail[<<2, 1>>][k + 2].n = updates
    /\ <<1, 2>> \in DOMAIN trail
    /\ Len(trail[<<1, 2>>]) >= 2
    /\ ~trail[<<1, 2>>][Len(trail[<<1, 2>>])].handler.Leave
    /\ trail[<<1, 2>>][Len(trail[<<1, 2>>]) - 1].overlap
    /\ ~trail[<<1, 2>>][Len(trail[<<1, 2>>])].overlap
    /\ previousCollisions = EmptyMap

----------------------------------------------------------------------------
(* rectOverlap                                                             *)

\* The length of what the intervals [a, a+m] and [b, b+n] have in common
\* (negative when they are apart).
Common(a, m, b, n) ==
    (IF a + m < b + n THEN a + m ELSE b + n) - (IF a > b THEN a ELSE b)

\* The rectangles rectOverlap is given in the state: the single rectangle
\* and the two bars of every collidable entity.
RectanglesOf(e) ==
    LET g == getComponents(Reg, e)
    IN  { SingleRectangle(g.p, g.c), HorizontalBar(g.p, g.c), VerticalBar(g.p, g.c) }

\* C30: for rectangles of positive width and height rectOverlap is true iff
\* they have more than an edge or a corner in common on both axes; it is the
\* same with the two rectangles swapped; and Update treats two box colliders
\* accordingly.
C30_RectOverlapStrict ==
    /\ \A p \in Collidable : \A a \in RectanglesOf(p[1]) : \A b \in RectanglesOf(p[2]) :
          /\ (a.w > 0 /\ a.h > 0 /\ b.w > 0 /\ b.h > 0)
                 => rectOverlap(a.x, a.y, a.w, a.h, b.x, b.y, b.w, b.h)
                        = (Common(a.x, a.w, b.x, b.w) > 0 /\ Common(a.y, a.h, b.y, b.h) > 0)
          /\ rectOverlap(a.x, a.y, a.w, a.h, b.x, b.y, b.w, b.h)
                 = rectOverlap(b.x, b.y, b.w, b.h, a.x, a.y, a.w, a.h)
    /\ \A p \in DOMAIN trail : \A k \in DOMAIN trail[p] :
          LET a == SingleRectangle(components[p[1]]["position"], components[p[1]]["collider"])
              b == SingleRectangle(components[p[2]]["position"], components[p[2]]["collider"])
          IN  (~components[p[1]]["collider"].CrossShape /\ ~components[p[2]]["collider"].CrossShape)
                  => trail[p][k].overlap
                         = (Common(a.x, a.w, b.x, b.w) > 0 /\ Common(a.y, a.h, b.y, b.h) > 0)

\* Two boxes that share a corner only have been through an Update with a
\* handler that has Enter, and nothing was called.
C30_Witness ==
    /\ components[2]["position"] = PositionComponent(10, 10)
    /\ ~components[1]["collider"].CrossShape
    /\ ~components[2]["collider"].CrossShape
    /\ <<1, 2>> \in DOMAIN trail
    /\ trail[<<1, 2>>][1].handler.Enter
    /\ ~trail[<<1, 2>>][1].overlap
    /\ fired = <<>>
    /\ updates = 1

----------------------------------------------------------------------------
(* The unblocked tick                                                      *)

\* No solid that e is tested against stands in the way of either candidate.
Unblocked(e) ==
    /\ \A o \in Obstacles(e) : Static(o)
    /\ \A o \in Obstacles(e) : ~HitsX(e, o) /\ ~HitsY(e, o)

\* processEntity went past its early return for e.
Moves(e) ==
    /\ e \in DOMAIN task
    /\ \A n \in {"position", "velocity", "size"} : HasComponent(PreReg, e, n)

\* C31: after the tick an entity that no solid blocks has velocity.y
\* advanced by gravity*dt, velocity.x as before, and stands at
\* (x + velocity.x*dt, y + velocity.y'*dt); and the gravity step is done
\* when the first solid is about to be tested, whatever the solids are.
C31_UnblockedStep ==
    /\ \A e \in DOMAIN task :
          (Processed(e) /\ Unblocked(e)) =>
              /\ components[e]["velocity"].Y = pre[e]["velocity"].Y + TimesDt(Gravity)
              /\ components[e]["velocity"].X = pre[e]["velocity"].X
              /\ components[e]["position"].X
                     = pre[e]["position"].X + TimesDt(pre[e]["velocity"].X)
              /\ components[e]["position"].Y
                     = pre[e]["position"].Y + TimesDt(components[e]["velocity"].Y)
    /\ \A e \in DOMAIN task :
          (task[e].pc = "loop" /\ task[e].i = 1) =>
              /\ components[e]["velocity"].Y = pre[e]["velocity"].Y + TimesDt(Gravity)
              /\ task[e].newY = pre[e]["position"].Y + TimesDt(components[e]["velocity"].Y)

\* An entity with solids to test, none in its way, has fallen and moved
\* sideways.
C31_Witness ==
    \E e \in DOMAIN task :
        /\ Processed(e)
        /\ Moves(e)
        /\ Unblocked(e)
        /\ Obstacles(e) # {}
        /\ Gravity # 0
        /\ pre[e]["velocity"].Y # 0
        /\ components[e]["position"].X # pre[e]["position"].X
        /\ components[e]["position"].Y # pre[e]["position"].Y
        /\ ~running

----------------------------------------------------------------------------
(* The frame of a physics tick                                             *)

\* The components of e whose value a step changes.
ChangedOf(e) == { n \in DOMAIN components[e] : components'[e][n] # components[e][n] }

\* C32: no step of a physics tick adds or removes an entity or a component,
\* and the only values a step changes are the position and the velocity of
\* an entity that carries position, velocity and size.
C32_TickFrame ==
    [][ (running \/ running') =>
          /\ entities' = entities
          /\ lastEntityID' = lastEntityID
          /\ indentToEntity' = indentToEntity
          /\ DOMAIN components' = DOMAIN components
          /\ \A e \in DOMAIN components :
                /\ DOMAIN components'[e] = DOMAIN components[e]
                /\ ChangedOf(e) \subseteq {"position", "velocity"}
                /\ ChangedOf(e) # {} =>
                       \A n \in {"position", "velocity", "size"} : HasComponent(Reg, e, n)
      ]_vars

\* The tick is over: an entity moved and changed velocity, and a solid
\* without velocity, tagged with one more component, is as it was.
C32_Witness ==
    /\ ~running
    /\ tick = 1
    /\ \E e \in DOMAIN task :
          /\ components[e]["position"] # pre[e]["position"]
          /\ components[e]["velocity"] # pre[e]["velocity"]
    /\ \E o \in DOMAIN components :
          /\ ~HasComponent(Reg, o, "velocity")
          /\ HasComponent(Reg, o, "ghost")
          /\ components[o] = pre[o]

----------------------------------------------------------------------------
(* The query and the step                                                  *)

\* Every rejection of e's step shows in its velocity: both components of
\* the velocity it moves with are non-zero, and no solid it could meet is
\* moved during the tick.
RejectionShows(e) ==
    /\ pre[e]["velocity"].X # 0
    /\ CandidateVelY(e) # 0
    /\ \A o \in SolidsOf(e) : Static(o)

\* The step of e rejected an axis.
Rejected(e) == components[e]["velocity"].X = 0 \/ components[e]["velocity"].Y = 0

\* C33: CheckIfColliding, asked before the tick about the candidate position
\* of e's step, answers true iff the step rejects an axis.
C33_QueryAgreesWithStep ==
    \A e \in DOMAIN task :
        (Processed(e) /\ RejectionShows(e)) =>
            (CheckIfColliding(PreReg, e, CandidateX(e), CandidateY(e)) <=> Rejected(e))

----------------------------------------------------------------------------
(* The order of the solids                                                 *)

\* The loop of e's processEntity is over and nothing is committed yet.
LoopDone(e) == task[e].pc = "commitX"

\* The solids were iterated with a higher id before a lower one.
Descending(list) ==
    \E i, j \in DOMAIN list : i < j /\ list[i] > list[j]

\* C34: whatever the order in which the query returned the solids, when the
\* loop ends the candidate position and the velocity are those that the
\* set of obstacles determines, and these are what is committed.
C34_SolidOrderIndependent ==
    \A e \in DOMAIN task :
        (\A o \in Obstacles(e) : Static(o)) =>
            /\ LoopDone(e) =>
                  /\ PositionComponent(task[e].newX, task[e].newY)
                         = Blocked(e, Obstacles(e)).position
                  /\ components[e]["velocity"] = Blocked(e, Obstacles(e)).velocity
            /\ (Processed(e) /\ Moves(e)) =>
                  /\ components[e]["position"] = Blocked(e, Obstacles(e)).position
                  /\ components[e]["velocity"] = Blocked(e, Obstacles(e)).velocity

\* The loop ended over two obstacles taken in descending order, one in the
\* way on x only and the other on y only.
C34_Witness ==
    \E e \in DOMAIN task :
        /\ LoopDone(e)
        /\ Descending(task[e].solidEntities)
        /\ \A o \in Obstacles(e) : Static(o)
        /\ \E a, b \in Obstacles(e) :
              /\ HitsX(e, a) /\ ~HitsY(e, a)
              /\ HitsY(e, b) /\ ~HitsX(e, b)
        /\ task[e].newX = pre[e]["position"].X
        /\ task[e].newY = pre[e]["position"].Y

----------------------------------------------------------------------------
(* The tracked keys                                                        *)

\* The keys of the ordered pairs Update finds overlapping under a handler.
OverlappingKeys ==
    { collisionKey(p[1], p[2]) :
        p \in { q \in Collidable : Registered(GroupOf(q[1]), GroupOf(q[2])) /\ OverlapsNow(q) } }

\* C35: when Update returns, the stored keys are exactly those of the
\* ordered pairs of collidable entities whose groups have a handler and
\* that overlap.
C35_TrackedIsOverlapping ==
    [][ IsUpdate => DOMAIN previousCollisions' = OverlappingKeys ]_vars

\* After an Update, the pair (1,2) that overlapped under a handler at the
\* Update before overlaps no more and its key is gone.
C35_Witness ==
    /\ <<1, 2>> \in DOMAIN trail
    /\ Len(trail[<<1, 2>>]) >= 2
    /\ trail[<<1, 2>>][Len(trail[<<1, 2>>]) - 1].overlap
    /\ ~trail[<<1, 2>>][Len(trail[<<1, 2>>])].overlap
    /\ trail[<<1, 2>>][Len(trail[<<1, 2>>])].n = updates
    /\ collisionKey(1, 2) \notin DOMAIN previousCollisions
    /\ ~OverlapsNow(<<1, 2>>)

----------------------------------------------------------------------------
(* The stable ids                                                          *)

\* C36: every stable id maps to a live entity, no two stable ids map to the
\* same entity, and after RemoveEntity(e) the stable id that mapped to e is
\* not found.
C36_StableIdsSound ==
    /\ [](\A k \in DOMAIN indentToEntity : indentToEntity[k] \in DOMAIN entities)
    /\ [](\A k, l \in DOMAIN indentToEntity :
              indentToEntity[k] = indentToEntity[l] => k = l)
    /\ [][ \A e \in Ids : CallRemoveEntity(e) =>
              \A k \in FirstIdentOf(Reg, e) : ~GetEntityByIdent(Reg', k).ok ]_vars

\* Entity 1 is removed, and entity 2 is live under a stable id of its own.
C36_Witness ==
    /\ removed = {1}
    /\ 2 \in DOMAIN entities
    /\ DOMAIN indentToEntity # {}
    /\ \A k \in DOMAIN indentToEntity : indentToEntity[k] = 2
    /\ ret = NoRet

----------------------------------------------------------------------------
(* SpecScenes: the ScenesManager.  A wrapper is a cell of sm.wrappers and  *)
(* is referred to by its index, as the code refers to it by pointer:       *)
(* sm.scenewrappers, the three lists and the pool hold indices.            *)
(* sm.called is the calls the latest operation made on scenes.             *)

\* The wrappers ever allocated, and the longest scene stack.
MaxWrappers == 2

MaxStack == 3

SceneNames == {"a", "b"}

SceneObjects == {"s1", "s2"}

SceneCall(kind, scene) == [kind |-> kind, scene |-> scene]

RemoveAt(list, i) == SubSeq(list, 1, i - 1) \o SubSeq(list, i + 1, Len(list))

\* The highest index at which the list holds a value that satisfies Test.
LastIndex(list, Test(_)) ==
    LET hits == { i \in DOMAIN list : Test(list[i]) }
    IN  IF hits = {} THEN 0 ELSE CHOOSE i \in hits : \A j \in hits : j <= i

OnlyScenes ==
    UNCHANGED <<ecsVars, ret, panicked, run, removed, physVars, collVars, concVars, tmm, anim>>

\* rebuild
rebuild(m) ==
    IF ~m.poolDirty THEN m
    ELSE LET Updates(w) == m.wrappers[w].updateFlag
             Draws(w) == m.wrappers[w].drawFlag
         IN  [m EXCEPT !.updatelist = SelectSeq(m.scenelist, Updates),
                       !.drawlist = SelectSeq(m.scenelist, Draws),
                       !.poolDirty = FALSE]

\* sceneWrapperPool.Get(): a wrapper of the pool, or a new one (the pool may
\* also have dropped what was put into it).
PoolGet == sm.pool \cup (IF Len(sm.wrappers) < MaxWrappers THEN {Len(sm.wrappers) + 1} ELSE {})

\* sm.AddScene(name, scene), with the default flags
AddScene(name, scene) ==
    /\ IF name \in DOMAIN sm.scenewrappers
       THEN sm' = [sm EXCEPT !.called = <<>>]
       ELSE \E w \in PoolGet :
               LET cell == [name |-> name, scene |-> scene, updateFlag |-> TRUE,
                            drawFlag |-> TRUE, initFlag |-> FALSE]
               IN  sm' = [sm EXCEPT
                            !.wrappers = IF w \in DOMAIN sm.wrappers
                                         THEN [sm.wrappers EXCEPT ![w] = cell]
                                         ELSE Append(sm.wrappers, cell),
                            !.pool = sm.pool \ {w},
                            !.scenewrappers = Store(sm.scenewrappers, name, w),
                            !.poolDirty = TRUE,
                            !.called = <<>>]
    /\ OnlyScenes

\* sm.PushScene(name)
PushScene(name) ==
    /\ Len(sm.scenelist) < MaxStack
    /\ IF name \notin DOMAIN sm.scenewrappers
       THEN sm' = [sm EXCEPT !.called = <<>>]
       ELSE LET w == sm.scenewrappers[name]
                scene == sm.wrappers[w].scene
            IN  sm' = [sm EXCEPT
                         !.scenelist = Append(sm.scenelist, w),
                         !.wrappers[w].initFlag = TRUE,
                         !.called = (IF sm.wrappers[w].initFlag THEN <<>>
                                     ELSE <<SceneCall("Init", scene)>>)
                                    \o <<SceneCall("Enter", scene)>>,
                         !.poolDirty = TRUE]
    /\ OnlyScenes

\* sm.PopScene() or sm.PopScene(name): name is the variadic argument list.
PopScene(name) ==
    /\ LET Named(w) == sm.wrappers[w].name = name[1]
           i == IF Len(name) > 0 THEN LastIndex(sm.scenelist, Named) ELSE Len(sm.scenelist)
       IN  IF Len(sm.scenelist) = 0 \/ i = 0
           THEN sm' = [sm EXCEPT !.called = <<>>]
           ELSE sm' = [sm EXCEPT
                         !.called = <<SceneCall("Leave", sm.wrappers[sm.scenelist[i]].scene)>>,
                         !.scenelist = RemoveAt(sm.scenelist, i),
                         !.poolDirty = TRUE]
    /\ OnlyScenes

\* sm.UpdateScenes(deltaTime)
UpdateScenes ==
    /\ LET m == rebuild(sm)
       IN  sm' = [m EXCEPT !.called =
                     [i \in DOMAIN m.updatelist |->
                         SceneCall("Update", m.wrappers[m.updatelist[i]].scene)]]
    /\ OnlyScenes

\* sm.DrawScenes(screen)
DrawScenes ==
    /\ LET m == rebuild(sm)
       IN  sm' = [m EXCEPT !.called =
                     [i \in DOMAIN m.drawlist |->
                         SceneCall("Draw", m.wrappers[m.drawlist[i]].scene)]]
    /\ OnlyScenes

\* sm.DisposeScene(name): the loop leaves at the first match it removes.
DisposeScene(name) ==
    /\ IF name \notin DOMAIN sm.scenewrappers
       THEN sm' = [sm EXCEPT !.called = <<>>]
       ELSE LET w == sm.scenewrappers[name]
                Same(x) == x = w
                i == LastIndex(sm.scenelist, Same)
            IN  sm' = [sm EXCEPT
                         !.scenelist = IF i = 0 THEN sm.scenelist ELSE RemoveAt(sm.scenelist, i),
                         !.called = <<SceneCall("Dispose", sm.wrappers[w].scene)>>,
                         !.scenewrappers = Delete(sm.scenewrappers, name),
                         !.pool = sm.pool \cup {w},
                         !.poolDirty = TRUE]
    /\ OnlyScenes

NextScenes ==
    \/ \E name \in SceneNames, scene \in SceneObjects : AddScene(name, scene)
    \/ \E name \in SceneNames : PushScene(name)
    \/ \E name \in {<<>>} \cup { <<n>> : n \in SceneNames } : PopScene(name)
    \/ UpdateScenes
    \/ DrawScenes
    \/ \E name \in SceneNames : DisposeScene(name)

SpecScenes == Init /\ [][NextScenes]_vars

\* The scenes that are added and not disposed.
AddedScenes == { sm.wrappers[sm.scenewrappers[name]].scene : name \in DOMAIN sm.scenewrappers }

\* C37: DisposeScene(name) leaves the scene's wrapper nowhere on the stack;
\* no wrapper of the pool is ever on the stack; and no operation calls
\* Update, Draw or Leave on a scene that is not added when it begins.
C37_DisposedOffStack ==
    /\ [][ \A name \in DOMAIN sm.scenewrappers :
              DisposeScene(name) =>
                  \A i \in DOMAIN sm'.scenelist : sm'.scenelist[i] # sm.scenewrappers[name] ]_vars
    /\ [](\A i \in DOMAIN sm.scenelist : sm.scenelist[i] \notin sm.pool)
    /\ [][ \A i \in DOMAIN sm'.called :
              sm'.called[i].kind \in {"Update", "Draw", "Leave"}
                  => sm'.called[i].scene \in AddedScenes ]_vars

----------------------------------------------------------------------------
(* SpecTile: TilemapsManager.SetTilemap on the registry.  Of a tilemap     *)
(* the model keeps the objects of its "collider" layer; the callbacks of   *)
(* its "entities" layer are the game's and are left out.                   *)

\* The tilemap files of the game: name -> the objects of the collider layer.
TilemapFiles == [level1 |-> <<[X |-> 10, Y |-> 0, Width |-> 10, Height |-> 10]>>]

TilemapNames == DOMAIN TilemapFiles \cup {"nowhere"}

TilemapScales == {1, 2}

\* tmm.AddTilemap(name, path) for a file that loads.
AddTilemap(name) ==
    /\ ~panicked
    /\ name \in DOMAIN TilemapFiles
    /\ tmm' = [tmm EXCEPT !.tileMaps = Store(tmm.tileMaps, name, TilemapFiles[name])]
    /\ ret' = Return("AddTilemap", FALSE, 0)
    /\ UNCHANGED <<ecsVars, panicked, run, removed, physVars, collVars, concVars, sm, anim>>

\* The loop over the objects of the collider layer.
RECURSIVE AddColliders(_, _, _)
AddColliders(r, objs, scale) ==
    IF objs = <<>> THEN r
    ELSE AddColliders(AddCollider(r, Head(objs).X * scale, Head(objs).Y * scale,
                                  Head(objs).Width * scale, Head(objs).Height * scale),
                      Tail(objs), scale)

\* tmm.SetTilemap(name, scale)
SetTilemap(name, scale) ==
    /\ ~panicked
    /\ \E r1 \in RemoveEntities(Reg) :
          IF name \notin DOMAIN tmm.tileMaps
          THEN /\ SetReg(r1)
               /\ ret' = Return("SetTilemap", TRUE, 0)
               /\ removed' = removed \cup (((DOMAIN entities) \ (DOMAIN r1.entities)) \cap issued)
               /\ UNCHANGED <<tmm, run>>
          ELSE LET r2 == AddColliders(r1, tmm.tileMaps[name], scale)
               IN  /\ r2.lastEntityID <= MaxId
                   /\ SetReg(r2)
                   /\ tmm' = [tmm EXCEPT !.currentTileMap = name, !.scale = scale]
                   /\ ret' = Return("SetTilemap", FALSE, 0)
                   /\ removed' = removed \cup (((DOMAIN entities) \ (DOMAIN r1.entities)) \cap issued)
                   /\ run' = run \o [i \in 1 .. (r2.lastEntityID - r1.lastEntityID) |->
                                       r1.lastEntityID + i]
    /\ UNCHANGED <<panicked, physVars, collVars, concVars, sm, anim>>

NextTile ==
    \/ \E name \in DOMAIN TilemapFiles : AddTilemap(name)
    \/ \E name \in TilemapNames, scale \in TilemapScales : SetTilemap(name, scale)
    \/ \E ident \in {<<>>, <<"a">>} : CallAddEntity(ident)
    \/ \E e \in Ids, c \in CompInputs : CallAddComponent(e, c)

SpecTile == Init /\ [][NextTile]_vars

\* C38: SetTilemap with a name that is not a loaded tilemap returns an error
\* and leaves the registry, the current tilemap and the scale as they were.
C38_UnknownTilemapNoEffect ==
    [][ \A name \in TilemapNames \ DOMAIN tmm.tileMaps : \A scale \in TilemapScales :
            SetTilemap(name, scale) =>
                /\ ret'.err
                /\ UNCHANGED ecsVars
                /\ tmm' = tmm ]_vars

----------------------------------------------------------------------------
(* SpecAnim: Animation.UpdateAnimation and Reset.  Times are float64 in    *)
(* the code and integers here; anim.frames is the number of frames;        *)
(* anim.pc is "loop" while a call of UpdateAnimation stands at the head of *)
(* its for loop.                                                           *)

FrameCounts == {0, 2, 3}

FrameDurations == {0, 2, 3}

DeltaTimes == {-1, 0, 1, 3, 5}

OnlyAnim ==
    UNCHANGED <<ecsVars, ret, panicked, run, removed, physVars, collVars, concVars, sm, tmm>>

InitAnim ==
    /\ lastEntityID = NewECSManager.lastEntityID
    /\ entities = NewECSManager.entities
    /\ components = NewECSManager.components
    /\ indentToEntity = NewECSManager.indentToEntity
    /\ ret = NoRet
    /\ panicked = FALSE
    /\ run = <<>>
    /\ removed = {}
    /\ PhysicsIdle
    /\ CollisionsIdle
    /\ NoGoroutines
    /\ sm = NewScenesManager
    /\ tmm = NewTilemapsManager
    /\ \E n \in FrameCounts, d \in FrameDurations, loop \in BOOLEAN :
          anim = NewAnimation(n, d, loop)

\* a.UpdateAnimation(dt), up to the for loop
UpdateAnimationBegin(dt) ==
    /\ anim.pc = "idle"
    /\ IF (anim.completed /\ ~anim.loop) \/ dt <= 0 \/ anim.frames = 0
       THEN anim' = anim
       ELSE anim' = [anim EXCEPT !.elapsedTime = anim.elapsedTime + dt, !.pc = "loop"]
    /\ OnlyAnim

\* The test of the for loop and one turn of its body
UpdateAnimationLoop ==
    /\ anim.pc = "loop"
    /\ IF anim.elapsedTime >= anim.frameDuration
       THEN LET elapsed == anim.elapsedTime - anim.frameDuration
                next == anim.currentFrame + 1
            IN  IF next >= anim.frames
                THEN IF anim.loop
                     THEN anim' = [anim EXCEPT !.elapsedTime = elapsed, !.currentFrame = 0]
                     ELSE anim' = [anim EXCEPT !.elapsedTime = elapsed,
                                               !.currentFrame = anim.frames - 1,
                                               !.completed = TRUE,
                                               !.pc = "idle"]
                ELSE anim' = [anim EXCEPT !.elapsedTime = elapsed, !.currentFrame = next]
       ELSE anim' = [anim EXCEPT !.pc = "idle"]
    /\ OnlyAnim

\* a.Reset()
Reset ==
    /\ anim.pc = "idle"
    /\ anim' = [anim EXCEPT !.currentFrame = 0, !.elapsedTime = 0, !.completed = FALSE]
    /\ OnlyAnim

NextAnim ==
    \/ \E dt \in DeltaTimes : UpdateAnimationBegin(dt)
    \/ UpdateAnimationLoop
    \/ Reset

\* The goroutine that called UpdateAnimation goes on running it.
SpecAnim == InitAnim /\ [][NextAnim]_vars /\ WF_vars(UpdateAnimationLoop)

\* C39: every call of UpdateAnimation returns; outside a call the current
\* frame of an animation that has frames is one of its frames; a completed
\* non-looping animation stands on its last frame and UpdateAnimation
\* leaves it as it is.
C39_UpdateTerminates ==
    /\ (anim.pc = "loop") ~> (anim.pc = "idle")
    /\ []((anim.pc = "idle" /\ anim.frames > 0) =>
              (0 <= anim.currentFrame /\ anim.currentFrame < anim.frames))
    /\ []((anim.pc = "idle" /\ anim.completed /\ ~anim.loop) =>
              anim.currentFrame = anim.frames - 1)
    /\ [][ \A dt \in DeltaTimes :
              (anim.completed /\ ~anim.loop /\ UpdateAnimationBegin(dt)) => anim' = anim ]_vars

============================================================================
